---- MODULE Spec2Model ----
(***************************************************************************)
(* Orbital simulator core: maneuver-sequence validation, scripted maneuver *)
(* execution, the fixed-step integrator and the owning frame loop.         *)
(*                                                                         *)
(* Numbers.  Lengths are integers in centimetres, speeds in cm/s and       *)
(* accelerations in cm/s^2 (CM units per metre), so the 0.01 m/s speed     *)
(* guard is exactly one unit.  Wall-clock time and the physics accumulator *)
(* are integers in milliseconds (MS units per second).  Math.sqrt is the   *)
(* integer square root and a division rounds toward zero.                  *)
(*                                                                         *)
(* Callbacks.  The frame loop is two actions, BeginFrame and one Step per  *)
(* iteration of its stepping loop; the other callbacks (keys, warp slider, *)
(* preset select, import, export, the crash and docking overlays, undock)  *)
(* run between frames.  The altitude, transfer and inclination sliders,    *)
(* which also end in App.loadSequence, and the camera are left out.        *)
(***************************************************************************)
EXTENDS Integers, Sequences, FiniteSets, TLC

(***************************************************************************)
(* JavaScript values, as JSON.parse or a test builds them.                 *)
(***************************************************************************)
Undefined == [kind |-> "undefined"]
Null == [kind |-> "null"]
Num(n) == [kind |-> "number", fin |-> TRUE, val |-> n]
NaN == [kind |-> "number", fin |-> FALSE, val |-> 0]
Infinity == [kind |-> "number", fin |-> FALSE, val |-> 1]
Str(s) == [kind |-> "string", str |-> s]
Bool(b) == [kind |-> "boolean", b |-> b]
Arr(items) == [kind |-> "array", items |-> items]
Obj(fields) == [kind |-> "object", fields |-> fields]
\* the abrupt completion of a property read on null or undefined
TypeError == [kind |-> "TypeError"]

TypeOf(v) ==
  CASE v.kind = "undefined" -> "undefined"
    [] v.kind = "number" -> "number"
    [] v.kind = "string" -> "string"
    [] v.kind = "boolean" -> "boolean"
    [] OTHER -> "object"

\* !v
Falsy(v) ==
  \/ v.kind \in {"undefined", "null"}
  \/ v.kind = "number" /\ v.val = 0   \* 0 and NaN (Infinity has val 1)
  \/ v.kind = "string" /\ v.str = ""
  \/ v.kind = "boolean" /\ ~v.b

\* v[key]
Prop(v, key) ==
  CASE v.kind \in {"undefined", "null"} -> TypeError
    [] v.kind = "object" -> IF key \in DOMAIN v.fields THEN v.fields[key] ELSE Undefined
    [] v.kind = "array" -> IF key = "length" THEN Num(Len(v.items)) ELSE Undefined
    [] OTHER -> Undefined

IsArray(v) == v.kind = "array"

\* typeof v === 'number' && Number.isFinite(v)
FiniteNumberTypeofOnly(v) == TypeOf(v) = "number"
FiniteNumber(v) == TypeOf(v) = "number" /\ v.fin

\* typeof v === 'string' && v.length !== 0
NonEmptyString(v) == TypeOf(v) = "string" /\ v.str # ""

\* !v || typeof v !== 'object'
NotAnObjectTypeofOnly(v) == TypeOf(v) # "object"
NotAnObject(v) == Falsy(v) \/ TypeOf(v) # "object"

\* Array.isArray(v) && v.length === 3 && v.every(finite number)
Vector3(v) ==
  /\ IsArray(v)
  /\ Len(v.items) = 3
  /\ \A i \in 1..Len(v.items) : FiniteNumber(v.items[i])

\* one iteration of the for-of loop over obj.maneuvers:
\* "null" (return null), "TypeError" (a throw) or "next" (continue)
ManeuverCheck(m) ==
  IF NotAnObject(m) THEN "null"
  ELSE IF Prop(m, "id").kind = "TypeError" THEN "TypeError"
  ELSE IF ~NonEmptyString(Prop(m, "id")) THEN "null"
  ELSE IF ~FiniteNumber(Prop(m, "startTime")) \/ Prop(m, "startTime").val < 0 THEN "null"
  ELSE IF ~FiniteNumber(Prop(m, "duration")) \/ Prop(m, "duration").val < 0 THEN "null"
  ELSE IF ~IsArray(Prop(m, "deltaV")) \/ Len(Prop(m, "deltaV").items) # 3 THEN "null"
  ELSE IF ~Vector3(Prop(m, "deltaV")) THEN "null"
  ELSE "next"

RECURSIVE ManeuverLoop(_, _)
ManeuverLoop(items, i) ==
  IF i > Len(items) THEN "data"
  ELSE IF ManeuverCheck(items[i]) # "next" THEN ManeuverCheck(items[i])
  ELSE ManeuverLoop(items, i + 1)

\* "null": rejected; "data": the argument itself is returned; "TypeError": thrown
validateSequence(data) ==
  IF NotAnObject(data) THEN "null"
  ELSE IF Prop(data, "version").kind = "TypeError" THEN "TypeError"
  ELSE IF ~FiniteNumber(Prop(data, "version")) THEN "null"
  ELSE IF ~NonEmptyString(Prop(data, "name")) THEN "null"
  ELSE IF NotAnObject(Prop(data, "initialState")) THEN "null"
  ELSE IF ~IsArray(Prop(data, "maneuvers")) THEN "null"
  ELSE IF ~FiniteNumber(Prop(data, "totalDuration")) \/ Prop(data, "totalDuration").val < 0
    THEN "null"
  ELSE LET init == Prop(data, "initialState") IN
    IF Prop(init, "position").kind = "TypeError" THEN "TypeError"
    ELSE IF ~IsArray(Prop(init, "position")) \/ Len(Prop(init, "position").items) # 3 THEN "null"
    ELSE IF ~IsArray(Prop(init, "velocity")) \/ Len(Prop(init, "velocity").items) # 3 THEN "null"
    ELSE IF ~Vector3(Prop(init, "position")) THEN "null"
    ELSE IF ~Vector3(Prop(init, "velocity")) THEN "null"
    ELSE ManeuverLoop(Prop(data, "maneuvers").items, 1)

(***************************************************************************)
(* Program constants.                                                      *)
(***************************************************************************)
\* model units per metre (centimetres) and per second (milliseconds)
CM == 100
MS == 1000
\* components of a unit vector are integers out of UNIT
UNIT == 1000
KM == 1000 * CM

\* gravitational parameter of Earth in km^3/s^2 (3.986004418e14 m^3/s^2)
GM_EARTH == 398600
EARTH_RADIUS == 6371000 * CM
PHYSICS_DT == 1
MAX_STEPS_PER_FRAME == 10000
SHUTTLE_MASS == 110000
ISS_MASS == 420000
THRUST_FORCE == SHUTTLE_MASS * 10
DOCKING_DIST == 500 * CM
DOCKING_REL_VEL == 2 * CM
REENTRY_ALTITUDE == 70 * KM
COUNTDOWN_SECONDS == 60
\* speed below which the executor gives no thrust: 0.01 m/s
SPEED_EPSILON == CM \div 100
\* the frame time is clamped to 0.1 s
MAX_FRAME_DT == MS \div 10
WARP_LEVELS == <<1, 10, 100, 1000, 10000, 100000, 1000000>>

(***************************************************************************)
(* Arithmetic on integers standing for the program's doubles.              *)
(***************************************************************************)
Abs(a) == IF a < 0 THEN -a ELSE a
Min(a, b) == IF a < b THEN a ELSE b
Max(a, b) == IF a > b THEN a ELSE b

\* a / b, rounded toward zero
Quot(a, b) == IF a < 0 THEN -((-a) \div b) ELSE a \div b

RECURSIVE SqrtSearch(_, _, _)
SqrtSearch(n, lo, hi) ==
  IF lo >= hi THEN lo
  ELSE LET mid == (lo + hi + 1) \div 2 IN
       IF mid * mid <= n THEN SqrtSearch(n, mid, hi) ELSE SqrtSearch(n, lo, mid - 1)

\* Math.sqrt
Sqrt(n) == SqrtSearch(n, 0, 46340)

\* the power of ten that brings a magnitude under 20000, so that squares fit
RECURSIVE Scale(_)
Scale(m) == IF m <= 20000 THEN 1 ELSE 10 * Scale(m \div 10)

VecScale(v) == Scale(Max(Abs(v[1]), Max(Abs(v[2]), Abs(v[3]))))
Shrunk(v) == [i \in 1..3 |-> Quot(v[i], VecScale(v))]
SumSq(v) == v[1] * v[1] + v[2] * v[2] + v[3] * v[3]

\* Math.sqrt(x * x + y * y + z * z), Vector3.length
Norm(v) == Sqrt(SumSq(Shrunk(v))) * VecScale(v)

\* Vector3.normalize: the zero vector stays zero
Normalize(v) ==
  LET w == Shrunk(v)
      n == Sqrt(SumSq(w))
  IN  IF n = 0 THEN <<0, 0, 0>> ELSE [i \in 1..3 |-> Quot(w[i] * UNIT, n)]

\* Vector3.crossVectors
Cross(a, b) ==
  <<a[2] * b[3] - a[3] * b[2], a[3] * b[1] - a[1] * b[3], a[1] * b[2] - a[2] * b[1]>>

Negate(v) == [i \in 1..3 |-> -v[i]]
Sub(a, b) == [i \in 1..3 |-> a[i] - b[i]]
ZeroVec == <<0, 0, 0>>

(***************************************************************************)
(* GravityModel and Integrator.                                            *)
(***************************************************************************)
\* -mu * r / |r|^3 in cm/s^2; the radius is taken in whole kilometres
gravitationalAcceleration(x, y, z) ==
  LET rkm == Norm(<<x, y, z>>) \div KM
      g == (GM_EARTH * 1000) \div ((rkm * rkm) \div CM)
      u == Normalize(<<x, y, z>>)
  IN  [i \in 1..3 |-> -Quot(g * u[i], UNIT)]

derivative(state, thrust) ==
  LET g == gravitationalAcceleration(state[1], state[2], state[3])
  IN  <<state[4], state[5], state[6],
        g[1] + thrust[1], g[2] + thrust[2], g[3] + thrust[3]>>

\* a + b * s with s = num / den
addScaled(a, b, num, den) == [i \in 1..6 |-> a[i] + Quot(b[i] * num, den)]

\* the value rk4Step returns
rk4Result(state, dt, thrust) ==
  LET k1 == derivative(state, thrust)
      k2 == derivative(addScaled(state, k1, dt, 2), thrust)
      k3 == derivative(addScaled(state, k2, dt, 2), thrust)
      k4 == derivative(addScaled(state, k3, dt, 1), thrust)
  IN  [i \in 1..6 |-> state[i] + Quot(dt * (k1[i] + 2 * k2[i] + 2 * k3[i] + k4[i]), 6)]

(***************************************************************************)
(* AtmosphereModel.  A double it returns keeps its sign apart, so that -0  *)
(* and 0 differ as they do for Object.is, and 0 / 0 is NaN.                *)
(***************************************************************************)
Dbl(neg, abs) == [nan |-> FALSE, neg |-> neg, abs |-> abs]
DblNaN == [nan |-> TRUE, neg |-> FALSE, abs |-> 0]
\* the array literal [0, 0, 0]
ZeroDrag == <<Dbl(FALSE, 0), Dbl(FALSE, 0), Dbl(FALSE, 0)>>

\* sea-level density in mg/m^3 (1.225 kg/m^3)
SEA_LEVEL_DENSITY == 1225000
SCALE_HEIGHT == 8500 * CM
ATMOSPHERE_CEILING == 600 * KM
\* 0.5 * DRAG_COEFFICIENT * CROSS_SECTION_AREA
HALF_CD_AREA == 11
\* speeds are whole cm/s: below 1e-6 m/s means zero
DRAG_SPEED_EPSILON == 1

\* the altitude over which exp(-altitude / SCALE_HEIGHT) halves: SCALE_HEIGHT * ln 2
HalfHeight == (SCALE_HEIGHT * 693) \div 1000

RECURSIVE Halved(_, _)
Halved(v, n) == IF n = 0 \/ v = 0 THEN v ELSE Halved(v \div 2, n - 1)

\* a * b / 10^k, dividing the larger factor first so that the product fits
RECURSIVE ScaledProduct(_, _, _)
ScaledProduct(a, b, k) ==
  IF k = 0 THEN a * b
  ELSE IF a >= b THEN ScaledProduct(a \div 10, b, k - 1)
  ELSE ScaledProduct(a, b \div 10, k - 1)

\* SEA_LEVEL_DENSITY * Math.exp(-altitude / SCALE_HEIGHT), in mg/m^3
atmosphericDensity(altitude) ==
  IF altitude > ATMOSPHERE_CEILING \/ altitude < 0 THEN 0
  ELSE Halved(SEA_LEVEL_DENSITY, altitude \div HalfHeight)

\* 0.5 * rho * Cd * A * speed * speed / mass in cm/s^2, speed in cm/s:
\* rho (mg/m^3) * 11 * (speed in m/s)^2 / 10^7, SPACECRAFT_MASS being 10^3 kg
dragMag(rho, speed) ==
  ScaledProduct(rho * HALF_CD_AREA, (speed \div CM) * (speed \div CM), 7)

\* -dragMag * vx / speed
dragComponent(mag, vx, speed) ==
  IF speed = 0 THEN DblNaN
  ELSE Dbl(~(vx < 0), ScaledProduct(mag, Quot(Abs(vx) * UNIT, speed), 3))

\* the part of dragAcceleration after its altitude guard
dragBelowCeiling(altitude, v) ==
  IF Norm(v) < DRAG_SPEED_EPSILON THEN ZeroDrag
  ELSE [i \in 1..3 |->
          dragComponent(dragMag(atmosphericDensity(altitude), Norm(v)), v[i], Norm(v))]

dragAccelerationCeilingOnly(x, y, z, vx, vy, vz) ==
  IF Norm(<<x, y, z>>) - EARTH_RADIUS > ATMOSPHERE_CEILING
  THEN ZeroDrag
  ELSE dragBelowCeiling(Norm(<<x, y, z>>) - EARTH_RADIUS, <<vx, vy, vz>>)

dragAcceleration(x, y, z, vx, vy, vz) ==
  IF \/ Norm(<<x, y, z>>) - EARTH_RADIUS > ATMOSPHERE_CEILING
     \/ Norm(<<x, y, z>>) - EARTH_RADIUS < 0
  THEN ZeroDrag
  ELSE dragBelowCeiling(Norm(<<x, y, z>>) - EARTH_RADIUS, <<vx, vy, vz>>)

(***************************************************************************)
(* Orientation.  A quaternion is kept as the images of the local X and Z   *)
(* axes under the rotation it stands for.                                  *)
(***************************************************************************)
IdentityQuat == [x |-> <<UNIT, 0, 0>>, z |-> <<0, 0, UNIT>>]

\* Quaternion.setFromRotationMatrix(Matrix4.lookAt(origin, target, up))
LookAt(target, up) ==
  LET zAxis == Normalize(Negate(target))
  IN  [x |-> Normalize(Cross(up, zAxis)), z |-> zAxis]

\* Vector3(lx, 0, lz).applyQuaternion(q)
ApplyQuaternion(lx, lz, q) == [i \in 1..3 |-> Quot(lx * q.x[i] + lz * q.z[i], UNIT)]

(***************************************************************************)
(* Maneuver sequences.                                                     *)
(***************************************************************************)
NoVector == [position |-> ZeroVec, velocity |-> ZeroVec]

\* Math.sqrt(GM_EARTH / r), to the metre per second
CircularSpeed(r) == Sqrt(((GM_EARTH * 1000) \div (r \div KM)) * 1000) * CM

(***************************************************************************)
(* TransferPlanner.  Radii are in metres here and speeds in cm/s; GM_EARTH *)
(* / r is in m^2/s^2.                                                      *)
(***************************************************************************)
RECURSIVE Pow10(_)
Pow10(k) == IF k = 0 THEN 1 ELSE 10 * Pow10(k - 1)

\* a * 10^k / r, a digit at a time
RECURSIVE LongDiv(_, _, _)
LongDiv(a, k, r) ==
  IF k = 0 THEN a \div r
  ELSE (a \div r) * Pow10(k) + LongDiv((a % r) * 10, k - 1, r)

\* <<q, rem>> with x * y = q * c + rem, over the decimal digits of y
RECURSIVE MulDivRem(_, _, _)
MulDivRem(x, y, c) ==
  IF y = 0 THEN <<0, 0>>
  ELSE LET h == MulDivRem(x, y \div 10, c)
           t == 10 * h[2] + x * (y % 10)
       IN  <<10 * h[1] + t \div c, t % c>>

\* x * y / c
MulDiv(x, y, c) == MulDivRem(x, y, c)[1]

\* mu / r
MuOver(r) == LongDiv(GM_EARTH * 1000, 6, r)

\* Math.sqrt of a square speed in m^2/s^2, in cm/s
SqrtSpeed(n) ==
  LET s == Sqrt(n)
      d == CHOOSE d \in 0..99 :
             /\ 200 * s * d + d * d <= 10000 * (n - s * s)
             /\ d = 99 \/ 200 * s * (d + 1) + (d + 1) * (d + 1) > 10000 * (n - s * s)
  IN  100 * s + d

\* Math.sqrt(mu * (2 / r - 1 / a))
VisViva(r, a) == SqrtSpeed(MulDiv(MuOver(r), 2 * a - r, a))

\* Math.PI * Math.sqrt(aTransfer ** 3 / mu) is taken as PI * aTransfer / sqrt(mu / aTransfer),
\* to the second
hohmannTransfer(r1, r2) ==
  LET aTransfer == (r1 + r2) \div 2
  IN  [dv1 |-> VisViva(r1, aTransfer) - SqrtSpeed(MuOver(r1)),
       dv2 |-> SqrtSpeed(MuOver(r2)) - VisViva(r2, aTransfer),
       transferTime |-> (3142 * (aTransfer \div 1000)) \div (SqrtSpeed(MuOver(aTransfer)) \div CM)]

(***************************************************************************)
(* IEEE 754 doubles, for the claims that depend on rounding.  A double is  *)
(* sign * m * 2^e with m = 0 or 2^52 <= m < 2^53; m and the intermediate   *)
(* results are wide naturals of four limbs of 30 bits, least significant   *)
(* first.  Every operation rounds to nearest, ties to even.  Exponents are *)
(* not bounded: overflow, underflow, infinities and NaN are not modelled.  *)
(***************************************************************************)
LIMB == 1073741824
WZero == <<0, 0, 0, 0>>
WOne == <<1, 0, 0, 0>>
W2p52 == <<0, 4194304, 0, 0>>
W2p53 == <<0, 8388608, 0, 0>>
W2p108 == <<0, 0, 0, 262144>>

RECURSIVE WAddFrom(_, _, _, _)
WAddFrom(a, b, i, carry) ==
  IF i > 4 THEN <<>>
  ELSE <<(a[i] + b[i] + carry) % LIMB>>
         \o WAddFrom(a, b, i + 1, (a[i] + b[i] + carry) \div LIMB)

WAdd(a, b) == WAddFrom(a, b, 1, 0)

RECURSIVE WSubFrom(_, _, _, _)
WSubFrom(a, b, i, borrow) ==
  IF i > 4 THEN <<>>
  ELSE <<(a[i] - b[i] - borrow) % LIMB>>
         \o WSubFrom(a, b, i + 1, IF a[i] - b[i] - borrow < 0 THEN 1 ELSE 0)

\* a - b for a >= b
WSub(a, b) == WSubFrom(a, b, 1, 0)

RECURSIVE WLessFrom(_, _, _)
WLessFrom(a, b, i) ==
  IF i = 0 THEN FALSE
  ELSE IF a[i] # b[i] THEN a[i] < b[i]
  ELSE WLessFrom(a, b, i - 1)

WLess(a, b) == WLessFrom(a, b, 4)

WShl1(a) == WAdd(a, a)
WShr1(a) ==
  <<a[1] \div 2 + (a[2] % 2) * (LIMB \div 2),
    a[2] \div 2 + (a[3] % 2) * (LIMB \div 2),
    a[3] \div 2 + (a[4] % 2) * (LIMB \div 2),
    a[4] \div 2>>

\* 2^0 .. 2^30
Pow2Table ==
  <<    1, 2, 4, 8, 16, 32, 64, 128, 256, 512, 1024, 2048, 4096, 8192, 16384,
    32768, 65536, 131072, 262144, 524288, 1048576, 2097152, 4194304,
    8388608, 16777216, 33554432, 67108864, 134217728, 268435456,
    536870912, 1073741824>>
Pow2(s) == Pow2Table[s + 1]

Limb(a, i) == IF i < 1 \/ i > 4 THEN 0 ELSE a[i]

\* limb i of a * 2^(30 q + s), 0 <= s < 30
ShlLimb(a, q, s, i) ==
  (Limb(a, i - q) % Pow2(30 - s)) * Pow2(s) + Limb(a, i - q - 1) \div Pow2(30 - s)

WShl(a, n) ==
  <<ShlLimb(a, n \div 30, n % 30, 1), ShlLimb(a, n \div 30, n % 30, 2),
    ShlLimb(a, n \div 30, n % 30, 3), ShlLimb(a, n \div 30, n % 30, 4)>>

\* limb i of a \div 2^(30 q + s), 0 <= s < 30
ShrLimb(a, q, s, i) ==
  Limb(a, i + q) \div Pow2(s) + (Limb(a, i + q + 1) % Pow2(s)) * Pow2(30 - s)

WShr(a, n) ==
  <<ShrLimb(a, n \div 30, n % 30, 1), ShrLimb(a, n \div 30, n % 30, 2),
    ShrLimb(a, n \div 30, n % 30, 3), ShrLimb(a, n \div 30, n % 30, 4)>>

\* the number of bits of a
LimbBits(x) == Cardinality({k \in 0..29 : Pow2(k) <= x})
WBits(a) ==
  IF a[4] > 0 THEN 90 + LimbBits(a[4])
  ELSE IF a[3] > 0 THEN 60 + LimbBits(a[3])
  ELSE IF a[2] > 0 THEN 30 + LimbBits(a[2])
  ELSE LimbBits(a[1])

\* Step applied n times to st, halving n so that the evaluation stays shallow;
\* each half is evaluated before the next begins
RECURSIVE Iterate(_, _, _)
Iterate(Step(_), st, n) ==
  IF n = 0 THEN st
  ELSE IF n = 1 THEN Step(st)
  ELSE CHOOSE r \in { Iterate(Step, half, n - n \div 2) :
                        half \in {Iterate(Step, st, n \div 2)} } : TRUE

\* one step of shift-and-add multiplication, on <<a, b, acc>>
MulStep(st) ==
  <<WShl1(st[1]), WShr1(st[2]),
    IF st[2][1] % 2 = 1 THEN WAdd(st[3], st[1]) ELSE st[3]>>

\* a * b for b < 2^53
WMul(a, b) == Iterate(MulStep, <<a, b, WZero>>, 53)[3]

FZero == [sign |-> 0, m |-> WZero, e |-> 0]

\* q2 holds 53 bits and a guard bit; its value without the guard bit is q * 2^e
FRoundGuard(sign, q2, e, inexactBelow) ==
  IF q2[1] % 2 = 1 /\ (inexactBelow \/ WShr1(q2)[1] % 2 = 1)
  THEN IF WAdd(WShr1(q2), WOne) = W2p53
       THEN [sign |-> sign, m |-> W2p52, e |-> e + 1]
       ELSE [sign |-> sign, m |-> WAdd(WShr1(q2), WOne), e |-> e]
  ELSE [sign |-> sign, m |-> WShr1(q2), e |-> e]

\* the double nearest to sign * (w + s) * 2^e, 0 <= s < 1, s > 0 iff sticky; bits = WBits(w)
FRoundBits(sign, w, e, sticky, bits) ==
  IF bits = 0 THEN FZero
  ELSE IF bits <= 53
  THEN [sign |-> sign, m |-> WShl(w, 53 - bits), e |-> e - (53 - bits)]
  ELSE FRoundGuard(sign, WShr(w, bits - 54), e + (bits - 53),
                   sticky \/ WShl(WShr(w, bits - 54), bits - 54) # w)

FRound(sign, w, e, sticky) == FRoundBits(sign, w, e, sticky, WBits(w))

\* the double k * 2^j, for an integer k >= 0
FromInt(k, j) == FRound(0, <<k % LIMB, k \div LIMB, 0, 0>>, j, FALSE)

FNeg(a) == IF a.m = WZero THEN a ELSE [a EXCEPT !.sign = 1 - a.sign]

FAddAligned(sa, wa, sb, wb, e) ==
  IF sa = sb THEN FRound(sa, WAdd(wa, wb), e, FALSE)
  ELSE IF wa = wb THEN FZero
  ELSE IF WLess(wa, wb) THEN FRound(sb, WSub(wb, wa), e, FALSE)
  ELSE FRound(sa, WSub(wa, wb), e, FALSE)

FAddOf(a, b) ==
  IF a.m = WZero THEN b
  ELSE IF b.m = WZero THEN a
  ELSE IF a.e - b.e > 60 THEN a
  ELSE IF b.e - a.e > 60 THEN b
  ELSE FAddAligned(a.sign, WShl(a.m, a.e - Min(a.e, b.e)),
                   b.sign, WShl(b.m, b.e - Min(a.e, b.e)), Min(a.e, b.e))

\* a + b; the arguments are evaluated before the addition, as in the source
FAdd(x, y) == CHOOSE v \in {FAddOf(a, b) : a \in {x}, b \in {y}} : TRUE

FSub(a, b) == FAdd(a, FNeg(b))

FMulOf(a, b) ==
  IF a.m = WZero \/ b.m = WZero THEN FZero
  ELSE FRound((a.sign + b.sign) % 2, WMul(a.m, b.m), a.e + b.e, FALSE)

FMul(x, y) == CHOOSE v \in {FMulOf(a, b) : a \in {x}, b \in {y}} : TRUE

\* one more quotient bit of r / d, r < d, on <<q, r, d>>
DivStep(st) ==
  IF WLess(WShl1(st[2]), st[3]) THEN <<WShl1(st[1]), WShl1(st[2]), st[3]>>
  ELSE <<WAdd(WShl1(st[1]), WOne), WSub(WShl1(st[2]), st[3]), st[3]>>

FDivRounded(sign, qr, e) == FRound(sign, qr[1], e, qr[2] # WZero)

FDivOf(a, b) ==
  IF a.m = WZero THEN FZero
  ELSE FDivRounded((a.sign + b.sign) % 2,
                   Iterate(DivStep,
                           <<IF WLess(a.m, b.m) THEN WZero ELSE WOne,
                             IF WLess(a.m, b.m) THEN a.m ELSE WSub(a.m, b.m),
                             b.m>>, 55),
                   a.e - b.e - 55)

\* a / b for b # 0
FDiv(x, y) == CHOOSE v \in {FDivOf(a, b) : a \in {x}, b \in {y}} : TRUE

\* one step of the integer square root, a bit pair at a time, on <<n, res, bit>>:
\* after the last step res is the root and n the remainder
SqrtStep(st) ==
  IF WLess(st[1], WAdd(st[2], st[3])) THEN <<st[1], WShr1(st[2]), WShr(st[3], 2)>>
  ELSE <<WSub(st[1], WAdd(st[2], st[3])), WAdd(WShr1(st[2]), st[3]), WShr(st[3], 2)>>

FSqrtRounded(st, e) == FRound(0, st[2], e, st[1] # WZero)

FSqrtOf(a) ==
  IF a.m = WZero THEN a
  ELSE FSqrtRounded(Iterate(SqrtStep, <<WShl(a.m, 56 + (a.e % 2)), WZero, W2p108>>, 55),
                    (a.e - (56 + (a.e % 2))) \div 2)

\* Math.sqrt(a) for a >= 0
FSqrt(x) == CHOOSE v \in {FSqrtOf(a) : a \in {x}} : TRUE

\* |a| <= 10^-9
FWithin1e9(a) ==
  \/ a.m = WZero
  \/ /\ a.e < 0
     /\ \/ -a.e > 119
        \/ ~WLess(WShl(WOne, -a.e), WMul(a.m, <<1000000000, 0, 0, 0>>))

\* GM_EARTH = 3.986004418e14 m^3/s^2 = 371225 * 2^30 + 633185600
GM_EARTH_DOUBLE == FRound(0, <<633185600, 371225, 0, 0>>, 0, FALSE)

\* Math.sqrt(mu * (2 / r - 1 / aTransfer))
transferSpeed(r, aTransfer) ==
  FSqrt(FMul(GM_EARTH_DOUBLE,
             FSub(FDiv(FromInt(2, 0), r), FDiv(FromInt(1, 0), aTransfer))))

\* the four speeds of hohmannTransfer: v1, v2, vTransfer1, vTransfer2
hohmannSpeeds(r1, r2, aTransfer) ==
  <<FSqrt(FDiv(GM_EARTH_DOUBLE, r1)), FSqrt(FDiv(GM_EARTH_DOUBLE, r2)),
    transferSpeed(r1, aTransfer), transferSpeed(r2, aTransfer)>>

hohmannDeltaV(speeds) ==
  [dv1 |-> FSub(speeds[3], speeds[1]), dv2 |-> FSub(speeds[2], speeds[4])]

\* dv1 and dv2 of hohmannTransfer, in doubles; each const of the source is
\* evaluated once, in the source's order
hohmannTransferUnhalved(r1, r2) ==
  CHOOSE h \in { hohmannDeltaV(speeds) :
                   speeds \in { hohmannSpeeds(r1, r2, aTransfer) :
                                  aTransfer \in {FAdd(r1, r2)} } } : TRUE

hohmannTransferDouble(r1, r2) ==
  CHOOSE h \in { hohmannDeltaV(speeds) :
                   speeds \in { hohmannSpeeds(r1, r2, aTransfer) :
                                  aTransfer \in {FDiv(FAdd(r1, r2), FromInt(2, 0))} } } : TRUE

(***************************************************************************)
(* OrbitalElements, in doubles.  Positions are whole metres and velocities *)
(* whole m/s along coordinate axes, so that every argument of Math.acos is *)
(* exactly -1, 0 or 1; an angle is then a whole number of quarter turns,   *)
(* or NaN.                                                                 *)
(***************************************************************************)
FOne == FromInt(1, 0)
FInt(k) == IF k < 0 THEN FNeg(FromInt(-k, 0)) ELSE FromInt(k, 0)
FIsZero(a) == a.m = WZero
FIsNegative(a) == a.m # WZero /\ a.sign = 1
FIsPositive(a) == a.m # WZero /\ a.sign = 0

\* a >= 1, for a >= 0
FAtLeastOne(a) == a.m # WZero /\ a.e >= -52

\* a > 1e-10, for a >= 0: m * 2^e * 10^10 > 1
FAbove1e10(a) ==
  /\ a.m # WZero
  /\ \/ a.e >= 0
     \/ /\ -a.e <= 119
        /\ WLess(WShl(WOne, -a.e), WMul(<<336323584, 9, 0, 0>>, a.m))

FSq(a) == FMul(a, a)
FSum3(a, b, c) == FAdd(FAdd(a, b), c)
FVec(p) == <<FInt(p[1]), FInt(p[2]), FInt(p[3])>>

NaNAngle == [nan |-> TRUE, quarters |-> 0]
Quarters(q) == [nan |-> FALSE, quarters |-> q]

\* Math.acos(Math.max(-1, Math.min(1, c))) for c in {-1, 0, 1}
AcosClamped(c) ==
  CASE c = FOne -> Quarters(0)
    [] c = FZero -> Quarters(1)
    [] c = FNeg(FOne) -> Quarters(2)

\* 2 * Math.PI - angle
TurnMinus(angle) == Quarters(4 - angle.quarters)

\* lines 9-29: r, v, h = r x v, the node vector and r . v
kinematicsOf(p, w) ==
  [p |-> p, w |-> w,
   r |-> FSqrt(FSum3(FSq(p[1]), FSq(p[2]), FSq(p[3]))),
   v |-> FSqrt(FSum3(FSq(w[1]), FSq(w[2]), FSq(w[3]))),
   hx |-> FSub(FMul(p[2], w[3]), FMul(p[3], w[2])),
   hy |-> FSub(FMul(p[3], w[1]), FMul(p[1], w[3])),
   hz |-> FSub(FMul(p[1], w[2]), FMul(p[2], w[1])),
   rdotv |-> FSum3(FMul(p[1], w[1]), FMul(p[2], w[2]), FMul(p[3], w[3]))]

\* lines 19-33 and 41: |h|, |n|, v^2, the two factors of e and the energy
magnitudesOf(k) ==
  [k |-> k,
   hMag |-> FSqrt(FSum3(FSq(k.hx), FSq(k.hy), FSq(k.hz))),
   nMag |-> FSqrt(FAdd(FSq(k.hz), FSq(FNeg(k.hx)))),
   factor1 |-> FDiv(FSub(FSq(k.v), FDiv(GM_EARTH_DOUBLE, k.r)), GM_EARTH_DOUBLE),
   factor2 |-> FDiv(k.rdotv, GM_EARTH_DOUBLE),
   energy |-> FSub(FDiv(FSq(k.v), FromInt(2, 0)), FDiv(GM_EARTH_DOUBLE, k.r))]

\* lines 35-38: the eccentricity vector
eccentricityOf(g) ==
  [g |-> g,
   ex |-> FSub(FMul(g.factor1, g.k.p[1]), FMul(g.factor2, g.k.w[1])),
   ey |-> FSub(FMul(g.factor1, g.k.p[2]), FMul(g.factor2, g.k.w[2])),
   ez |-> FSub(FMul(g.factor1, g.k.p[3]), FMul(g.factor2, g.k.w[3]))]

eccentricityMagOf(c) ==
  [c |-> c, eccentricity |-> FSqrt(FSum3(FSq(c.ex), FSq(c.ey), FSq(c.ez)))]

\* line 42: energy < 0 ? -mu / (2 * energy) : Infinity
semiMajorAxisOf(energy) ==
  IF FIsNegative(energy)
  THEN [finite |-> TRUE,
        value |-> FDiv(FNeg(GM_EARTH_DOUBLE), FMul(FromInt(2, 0), energy))]
  ELSE [finite |-> FALSE, value |-> FZero]

\* line 45: hy / hMag is 0 / 0 when the angular momentum is zero
inclinationOf(hy, hMag) ==
  IF FIsZero(hMag) THEN NaNAngle ELSE AcosClamped(FDiv(hy, hMag))

\* lines 48-52; nodeX = hz, nodeZ = -hx
raanOf(hx, hz, nMag) ==
  IF FAbove1e10(nMag)
  THEN IF FIsPositive(FNeg(hx)) THEN TurnMinus(AcosClamped(FDiv(hz, nMag)))
       ELSE AcosClamped(FDiv(hz, nMag))
  ELSE Quarters(0)

\* lines 55-60; ndote = nodeX * ex + nodeY * ey + nodeZ * ez with nodeY = 0
argumentOfPeriapsisOf(m) ==
  IF FAbove1e10(m.c.g.nMag) /\ FAbove1e10(m.eccentricity)
  THEN IF FIsNegative(m.c.ey)
       THEN TurnMinus(AcosClamped(FDiv(FSum3(FMul(m.c.g.k.hz, m.c.ex), FZero,
                                             FMul(FNeg(m.c.g.k.hx), m.c.ez)),
                                       FMul(m.c.g.nMag, m.eccentricity))))
       ELSE AcosClamped(FDiv(FSum3(FMul(m.c.g.k.hz, m.c.ex), FZero,
                                   FMul(FNeg(m.c.g.k.hx), m.c.ez)),
                             FMul(m.c.g.nMag, m.eccentricity)))
  ELSE Quarters(0)

\* lines 63-68
trueAnomalyOf(m) ==
  IF FAbove1e10(m.eccentricity)
  THEN IF FIsNegative(m.c.g.k.rdotv)
       THEN TurnMinus(AcosClamped(FDiv(FSum3(FMul(m.c.ex, m.c.g.k.p[1]),
                                             FMul(m.c.ey, m.c.g.k.p[2]),
                                             FMul(m.c.ez, m.c.g.k.p[3])),
                                       FMul(m.eccentricity, m.c.g.k.r))))
       ELSE AcosClamped(FDiv(FSum3(FMul(m.c.ex, m.c.g.k.p[1]),
                                   FMul(m.c.ey, m.c.g.k.p[2]),
                                   FMul(m.c.ez, m.c.g.k.p[3])),
                             FMul(m.eccentricity, m.c.g.k.r)))
  ELSE Quarters(0)

elementsOf(m) ==
  [semiMajorAxis |-> semiMajorAxisOf(m.c.g.energy),
   eccentricity |-> m.eccentricity,
   inclination |-> inclinationOf(m.c.g.k.hy, m.c.g.hMag),
   raan |-> raanOf(m.c.g.k.hx, m.c.g.k.hz, m.c.g.nMag),
   argumentOfPeriapsis |-> argumentOfPeriapsisOf(m),
   trueAnomaly |-> trueAnomalyOf(m)]

\* each const of the source is evaluated once, in the source's order
stateToElements(sv) ==
  CHOOSE el \in
    { elementsOf(m) :
        m \in { eccentricityMagOf(c) :
                  c \in { eccentricityOf(g) :
                            g \in { magnitudesOf(k) :
                                      k \in { kinematicsOf(p, w) :
                                                p \in {FVec(sv.position)},
                                                w \in {FVec(sv.velocity)} } } } } }
    : TRUE

leoCircularPreset ==
  LET r == EARTH_RADIUS + 600 * KM
      v == CircularSpeed(r)
  IN  [version |-> 1,
       name |-> "LEO 600km Circular",
       initialState |-> [position |-> <<r, 0, 0>>, velocity |-> <<0, 0, -v>>],
       hasIss |-> FALSE,
       issInitialState |-> NoVector,
       maneuvers |-> <<>>,
       totalDuration |-> 2 * ((6283 * (r \div KM)) \div (v \div CM))]

hohmannBurnsUnswapped(raising, h) ==
  IF raising
  THEN <<[id |-> "Transfer Injection", startTime |-> 300,
          deltaV |-> <<h.dv1, 0, 0>>, duration |-> 60],
         [id |-> "Circularization", startTime |-> 300 + h.transferTime,
          deltaV |-> <<h.dv2, 0, 0>>, duration |-> 60]>>
  ELSE <<[id |-> "Deorbit Burn", startTime |-> 300,
          deltaV |-> <<-h.dv1, 0, 0>>, duration |-> 60],
         [id |-> "Circularization", startTime |-> 300 + h.transferTime,
          deltaV |-> <<-h.dv2, 0, 0>>, duration |-> 60]>>

\* the burns of buildHohmannPreset: ids, start times, prograde delta-v, durations
hohmannBurns(raising, h) ==
  IF raising
  THEN <<[id |-> "Transfer Injection", startTime |-> 300,
          deltaV |-> <<h.dv1, 0, 0>>, duration |-> 60],
         [id |-> "Circularization", startTime |-> 300 + h.transferTime,
          deltaV |-> <<h.dv2, 0, 0>>, duration |-> 60]>>
  ELSE <<[id |-> "Deorbit Burn", startTime |-> 300,
          deltaV |-> <<-h.dv2, 0, 0>>, duration |-> 60],
         [id |-> "Circularization", startTime |-> 300 + h.transferTime,
          deltaV |-> <<-h.dv1, 0, 0>>, duration |-> 60]>>

buildHohmannPreset(name, fromAltKm, toAltKm) ==
  LET r1 == EARTH_RADIUS + fromAltKm * KM
      r2 == EARTH_RADIUS + toAltKm * KM
      h == hohmannTransfer(Min(r1, r2) \div CM, Max(r1, r2) \div CM)
  IN  [version |-> 1,
       name |-> name,
       initialState |-> [position |-> <<r1, 0, 0>>,
                         velocity |-> <<0, 0, -SqrtSpeed(MuOver(r1 \div CM))>>],
       hasIss |-> FALSE,
       issInitialState |-> NoVector,
       maneuvers |-> hohmannBurns(fromAltKm < toAltKm, h),
       totalDuration |-> 300 + h.transferTime + 60 + 7200]

orbitRaisePreset == buildHohmannPreset("Orbit Raise 400->800km", 400, 800)

\* from 408 km, a retrograde burn that lowers the periapsis to 60 km
reentryPreset ==
  LET r_start == EARTH_RADIUS + 408 * KM
      r_peri == EARTH_RADIUS + 60 * KM
      v_circ == SqrtSpeed(MuOver(r_start \div CM))
      a_reentry == (r_start + r_peri) \div 2
      v_at_apo == VisViva(r_start \div CM, a_reentry \div CM)
  IN  [version |-> 1,
       name |-> "Reentry from ISS Orbit",
       initialState |-> [position |-> <<r_start, 0, 0>>, velocity |-> <<0, 0, -v_circ>>],
       hasIss |-> FALSE,
       issInitialState |-> NoVector,
       maneuvers |-> <<[id |-> "Deorbit Burn", startTime |-> 300,
                        deltaV |-> <<v_at_apo - v_circ, 0, 0>>, duration |-> 30]>>,
       totalDuration |-> 300 + 30 + 5000]

getPreset(name) ==
  CASE name = "leo-circular" -> leoCircularPreset
    [] name = "orbit-raise" -> orbitRaisePreset
    [] name = "reentry" -> reentryPreset

\* rotation about the X axis by incDeg degrees; cosine and sine are exact
\* for the two angles drawn
applyInclination(sv, incDeg) ==
  LET cosI == IF incDeg = 0 THEN 1 ELSE 0
      sinI == IF incDeg = 0 THEN 0 ELSE 1
      p == sv.position
      v == sv.velocity
  IN  [position |-> <<p[1], p[2] * cosI - p[3] * sinI, p[2] * sinI + p[3] * cosI>>,
       velocity |-> <<v[1], v[2] * cosI - v[3] * sinI, v[2] * sinI + v[3] * cosI>>]

\* the numbers of a validated array of three
Numbers(a) == [i \in 1..3 |-> a.items[i].val]

\* data as ManeuverSequence, for a document validateSequence returned
AsManeuverSequence(d) ==
  LET init == Prop(d, "initialState")
      iss == Prop(d, "issInitialState")
      ms == Prop(d, "maneuvers").items
  IN  [version |-> Prop(d, "version").val,
       name |-> Prop(d, "name").str,
       initialState |-> [position |-> Numbers(Prop(init, "position")),
                         velocity |-> Numbers(Prop(init, "velocity"))],
       hasIss |-> ~Falsy(iss),
       issInitialState |-> IF Falsy(iss) THEN NoVector
                           ELSE [position |-> Numbers(Prop(iss, "position")),
                                 velocity |-> Numbers(Prop(iss, "velocity"))],
       maneuvers |-> [i \in 1..Len(ms) |->
                        [id |-> Prop(ms[i], "id").str,
                         startTime |-> Prop(ms[i], "startTime").val,
                         duration |-> Prop(ms[i], "duration").val,
                         deltaV |-> Numbers(Prop(ms[i], "deltaV"))]],
       totalDuration |-> Prop(d, "totalDuration").val]

\* JSON.stringify(seq, null, 2): the text of the sequence's own properties
serializeSequence(seq) ==
  [indent |-> 2,
   version |-> seq.version,
   name |-> seq.name,
   initialState |-> seq.initialState,
   issInitialState |-> IF seq.hasIss THEN <<seq.issInitialState>> ELSE <<>>,
   maneuvers |-> seq.maneuvers,
   totalDuration |-> seq.totalDuration]

(***************************************************************************)
(* ManeuverExecutor.                                                       *)
(***************************************************************************)
\* a window that includes its end
InWindowClosed(m, simTime) == simTime >= m.startTime /\ simTime <= m.startTime + m.duration
\* simTime >= m.startTime && simTime < m.startTime + m.duration
InWindow(m, simTime) == simTime >= m.startTime /\ simTime < m.startTime + m.duration

\* the loop "for (const m of maneuvers) if (...) { active = m; break; }":
\* the index of the maneuver it leaves in active, 0 for null
FindActiveLast(maneuvers, simTime) ==
  LET hits == {i \in 1..Len(maneuvers) : InWindow(maneuvers[i], simTime)}
  IN  IF hits = {} THEN 0 ELSE CHOOSE i \in hits : \A j \in hits : j <= i
RECURSIVE FindFrom(_, _, _)
FindFrom(maneuvers, simTime, i) ==
  IF i > Len(maneuvers) THEN 0
  ELSE IF InWindow(maneuvers[i], simTime) THEN i
  ELSE FindFrom(maneuvers, simTime, i + 1)
FindActive(maneuvers, simTime) == FindFrom(maneuvers, simTime, 1)

NoExecutor == [loaded |-> FALSE, sequence |-> leoCircularPreset, activeManeuver |-> 0]

\* ManeuverExecutor.loadSequence
ExecutorLoadKeepsActive(exec, seq) == [exec EXCEPT !.loaded = TRUE, !.sequence = seq]
ExecutorLoad(exec, seq) == [loaded |-> TRUE, sequence |-> seq, activeManeuver |-> 0]

\* ManeuverExecutor.clear
ExecutorClear(exec) == [exec EXCEPT !.loaded = FALSE, !.activeManeuver = 0]

\* get isActive
IsActive(exec) == exec.activeManeuver # 0

\* if (speed < 0.01) return [0, 0, 0]
SpeedGuardNever(speed) == FALSE
SpeedGuard(speed) == speed < SPEED_EPSILON

\* ManeuverExecutor.getThrustAtTime(simTime, state): what it returns, the
\* executor after the call, and the three fields of state it may assign
getThrustAtTime(exec, simTime, st) ==
  LET same == [quaternion |-> st.quaternion, thrustActive |-> st.thrustActive,
               thrustDirection |-> st.thrustDirection]
  IN
  IF ~exec.loaded THEN [thrust |-> ZeroVec, exec |-> exec] @@ same
  ELSE
    LET active == FindActive(exec.sequence.maneuvers, simTime)
        after == [exec EXCEPT !.activeManeuver = active]
    IN
    IF active = 0 THEN [thrust |-> ZeroVec, exec |-> after] @@ same
    ELSE
      LET speed == Norm(st.velocity) IN
      IF SpeedGuard(speed) THEN [thrust |-> ZeroVec, exec |-> after] @@ same
      ELSE
        LET m == exec.sequence.maneuvers[active]
            prograde == Normalize(st.velocity)
            radial0 == Normalize(st.position)
            normal == Normalize(Cross(radial0, prograde))
            radial == Normalize(Cross(prograde, normal))
            accelPro == Quot(m.deltaV[1], m.duration)
            accelNorm == Quot(m.deltaV[2], m.duration)
            accelRad == Quot(m.deltaV[3], m.duration)
            thrust == [i \in 1..3 |->
                         Quot(prograde[i] * accelPro, UNIT)
                         + Quot(normal[i] * accelNorm, UNIT)
                         + Quot(radial[i] * accelRad, UNIT)]
        IN  [thrust |-> thrust,
             exec |-> after,
             quaternion |-> LookAt(Negate(prograde), <<0, UNIT, 0>>),
             thrustActive |-> TRUE,
             thrustDirection |-> thrust]

(***************************************************************************)
(* SpacecraftControls, with the pitch and yaw offsets at zero (no arrow    *)
(* key is among the keys pressed).                                         *)
(***************************************************************************)
\* SpacecraftControls.applyThrust
applyThrust(keys, quat, thrustAccel) ==
  LET lz == (IF "KeyW" \in keys THEN thrustAccel ELSE 0)
            - (IF "KeyS" \in keys THEN thrustAccel ELSE 0)
      lx == (IF "KeyA" \in keys THEN thrustAccel ELSE 0)
            - (IF "KeyD" \in keys THEN thrustAccel ELSE 0)
      thrusting == keys \cap {"KeyW", "KeyS", "KeyA", "KeyD"} # {}
      eci == IF thrusting THEN ApplyQuaternion(lx, lz, quat) ELSE ZeroVec
  IN  [thrust |-> eci, thrustActive |-> thrusting, thrustDirection |-> eci]

\* SpacecraftControls.update(state, dt, thrustAccel)
controlsUpdate(st, keys, lastQuat, thrustAccel) ==
  LET radial == Normalize(st.position)
      speed == Norm(st.velocity)
      crossTrack == Cross(radial, st.velocity)
  IN
  IF speed = 0 \/ crossTrack = ZeroVec
  THEN applyThrust(keys, lastQuat, thrustAccel)
         @@ [quaternion |-> lastQuat, lastQuat |-> lastQuat]
  ELSE
    LET prograde == Normalize(Cross(Normalize(crossTrack), radial))
        finalQuat == LookAt(Negate(prograde), radial)
    IN  applyThrust(keys, finalQuat, thrustAccel)
          @@ [quaternion |-> finalQuat, lastQuat |-> finalQuat]

(***************************************************************************)
(* Bounds of the model.                                                    *)
(***************************************************************************)
\* properties a test overwrites in a clone of the base document
MaxEdits == 2
\* simulated seconds explored by the frame loop
MaxSimTime == 2
\* warp levels the slider is moved to: WARP_LEVELS[2..MaxWarpIndex]
MaxWarpIndex == 2
\* simulated seconds explored at the highest warp
MaxWarpSimTime == 10001

(***************************************************************************)
(* State.                                                                  *)
(***************************************************************************)
VARIABLES
  data,        \* the value handed to validateSequence
  edits,       \* how many properties of the base document were overwritten
  returned     \* "none" before the call, then what validateSequence(data) did

VARIABLES
  currentSequence,  \* App.currentSequence
  state,            \* App.state: stateVector, quaternion, thrustActive, thrustDirection
  issStateVector,   \* App.issStateVector, present = FALSE for null
  docked,
  dockedFlying,
  crashed,
  simTime,
  accumulator,      \* in milliseconds
  lastPresetName,
  timeControls,     \* paused, warpIndex (an index of WARP_LEVELS, from 1)
  keys,             \* InputManager.keys: the codes mapped to true
  lastQuat,         \* SpacecraftControls.lastQuat
  executor,         \* ManeuverExecutor: sequence, activeManeuver
  timeline,         \* Timeline: the sequence it shows
  crashOverlay,     \* shown, timer (running or not), remaining
  dockingOverlay,   \* shown, undockButton
  exported          \* the file the last handler offered for download

VARIABLES
  pc,               \* "idle" between callbacks, "loop" inside the stepping loop
  steps,            \* the loop's counter
  manualThrust,     \* the loop's manualThrust array
  lastCall,         \* the latest rk4Step call of the loop
  manualUsed,       \* the manual thrust vector was nonzero at a step since the load
  stepCount,        \* rk4Step calls on the shuttle since the load
  loadedSequence    \* the sequence as App.loadSequence received it

VARIABLES
  args,             \* a call of a function of the physics core: its name and arguments
  result            \* what the call returned, NoResult before it

VARIABLES
  camera,           \* App's camera fields and the OrbitControls of the SceneManager
  input,            \* the keyboard and the InputManager's synthetic keys
  joystick          \* a VirtualJoystick of the mobile controls

fnVars == <<args, result>>
uiVars == <<camera, input, joystick>>
valVars == <<data, edits, returned, fnVars, uiVars>>
appVars == <<currentSequence, state, issStateVector, docked, dockedFlying, crashed,
             simTime, accumulator, lastPresetName, timeControls, keys, lastQuat,
             executor, timeline, crashOverlay, dockingOverlay, exported>>
loopVars == <<pc, steps, manualThrust, lastCall, manualUsed, stepCount, loadedSequence>>
vars == <<valVars, appVars, loopVars>>

(***************************************************************************)
(* The camera.  Lengths are in metres of the simulated world (the scene    *)
(* unit is SCALE = 1e-6 of them).  The geometry is kept along one line:    *)
(* cameraDistance is the distance of the camera from controls.target and   *)
(* targetOffset the distance of controls.target from the shuttle, so that  *)
(* the live camera-to-shuttle distance is their sum.                       *)
(***************************************************************************)
REF_LOCK_ENTER_DIST == 25000
REF_LOCK_EXIT_DIST == 30000
defaultShuttleCameraDistance == 2400000
\* SceneManager: controls.minDistance, 20 m
minDistance == 20
\* the distance of getEarthCameraPose from its target, and of that target from the shuttle
EarthPoseDistance == 21000000
EarthPoseOffset == 6971000

ControlsFlags(b) ==
  [enableRotate |-> b, enablePan |-> b, enableZoom |-> b, enableDamping |-> b]

\* the fields after the constructor and start()
CameraStart ==
  [cameraLockTarget |-> "shuttle",
   shuttleRefFrameLock |-> FALSE,
   shuttleRefDistance |-> defaultShuttleCameraDistance,
   refLockListenersAttached |-> FALSE,
   refLockPointers |-> {},
   refLockLastPinchDist |-> 0,
   controls |-> ControlsFlags(TRUE),
   controlsEnabled |-> ControlsFlags(TRUE),
   dolly |-> 0,
   introEarthTransitionQueued |-> TRUE,
   cameraTransition |-> "none",
   cameraDistance |-> defaultShuttleCameraDistance,
   targetOffset |-> 0,
   preLock |-> ControlsFlags(TRUE),
   updated |-> FALSE,
   zoomInputs |-> 0,
   handler |-> "start"]

\* detachRefLockListeners and exitRefLock
exitRefLockKeepingZoom(c) ==
  [c EXCEPT !.shuttleRefFrameLock = FALSE,
            !.refLockPointers = {},
            !.refLockLastPinchDist = 0,
            !.refLockListenersAttached = FALSE,
            !.controls = [c.controlsEnabled EXCEPT !.enableZoom = c.controls.enableZoom]]

exitRefLock(c) ==
  [c EXCEPT !.shuttleRefFrameLock = FALSE,
            !.refLockPointers = {},
            !.refLockLastPinchDist = 0,
            !.refLockListenersAttached = FALSE,
            !.controls = c.controlsEnabled]

\* the entry branch of updateShuttleRefFrameLock, with attachRefLockListeners
enterRefLock(c, zoomDist) ==
  [c EXCEPT !.shuttleRefDistance = IF zoomDist > 0 THEN zoomDist ELSE @,
            !.shuttleRefFrameLock = TRUE,
            !.preLock = c.controls,
            !.controls = ControlsFlags(FALSE),
            !.refLockListenersAttached = TRUE]

\* the exit test of the locked branch
RefLockExitTestLive(c, zoomDist) == zoomDist >= REF_LOCK_EXIT_DIST

RefLockExitTest(c, zoomDist) == c.shuttleRefDistance >= REF_LOCK_EXIT_DIST

updateShuttleRefFrameLock(c, zoomDist) ==
  IF c.cameraLockTarget # "shuttle"
  THEN IF c.shuttleRefFrameLock THEN exitRefLock(c) ELSE c
  ELSE IF c.shuttleRefFrameLock
       THEN IF RefLockExitTest(c, zoomDist) THEN exitRefLock(c) ELSE c
       ELSE IF zoomDist <= REF_LOCK_ENTER_DIST THEN enterRefLock(c, zoomDist) ELSE c

\* the keyboard, the synthetic keys and the joystick before any event
InputCodes == {"Space", "Period", "KeyW"}
InputStart ==
  [held |-> {},                                   \* the keys the user holds down
   syntheticKeys |-> {},                          \* InputManager.syntheticKeys, the true ones
   lastConsume |-> [code |-> "none", value |-> FALSE],
   trueSincePress |-> [code \in InputCodes |-> 0]]  \* true results of consume in this press
JoystickStart ==
  [activeTouch |-> {},       \* the identifier of the active touch, empty for null
   knobX |-> 0, knobY |-> 0,
   touches |-> {},            \* the identifiers of the touches that started on the canvas
   disposed |-> FALSE]

UiInit ==
  /\ camera = CameraStart
  /\ input = InputStart
  /\ joystick = JoystickStart

(***************************************************************************)
(* Documents the user imports.                                             *)
(***************************************************************************)
Vec(x, y, z) == Arr(<<Num(x), Num(y), Num(z)>>)
StateDoc(p, v) == Obj([position |-> p, velocity |-> v])
ManeuverDoc(id, startTime, duration, deltaV) ==
  Obj([id |-> Str(id), startTime |-> Num(startTime), duration |-> Num(duration),
       deltaV |-> deltaV])

LeoRadius == EARTH_RADIUS + 200 * KM
LeoSpeed == CircularSpeed(LeoRadius)

\* three burns: "Early" has no duration, "First" and "Second" overlap at t = 1
DocOverlap ==
  Obj([version |-> Num(1), name |-> Str("Overlap"),
       initialState |-> StateDoc(Vec(LeoRadius, 0, 0), Vec(0, 0, -LeoSpeed)),
       maneuvers |-> Arr(<<ManeuverDoc("Early", 1, 0, Vec(100, 0, 0)),
                          ManeuverDoc("First", 0, 2, Vec(600, 0, 0)),
                          ManeuverDoc("Second", 1, 2, Vec(0, 400, 0))>>),
       totalDuration |-> Num(10)])

\* a spacecraft released at rest, with an impulse and a burn from t = 0
DocAtRest ==
  Obj([version |-> Num(1), name |-> Str("At rest"),
       initialState |-> StateDoc(Vec(LeoRadius, 0, 0), Vec(0, 0, 0)),
       maneuvers |-> Arr(<<ManeuverDoc("Pulse", 0, 0, Vec(50, 0, 0)),
                          ManeuverDoc("Hold", 0, 2, Vec(400, 0, 0))>>),
       totalDuration |-> Num(10)])

\* descending through 70.5 km at 1 km/s: below the re-entry altitude after one step
DocReentry ==
  Obj([version |-> Num(1), name |-> Str("Reentry"),
       initialState |-> StateDoc(Vec(EARTH_RADIUS + 70 * KM + 500 * CM, 0, 0),
                                 Vec(-100000, 0, -700000)),
       maneuvers |-> Arr(<<>>),
       totalDuration |-> Num(10)])

\* alongside the ISS at 71.5 km, both descending at 1 km/s: docked after one
\* step, below the re-entry altitude after the next
DocDockedReentry ==
  Obj([version |-> Num(1), name |-> Str("Docked reentry"),
       initialState |-> StateDoc(Vec(EARTH_RADIUS + 71 * KM + 500 * CM, 0, 0),
                                 Vec(-100000, 0, -700000)),
       issInitialState |-> StateDoc(Vec(EARTH_RADIUS + 71 * KM + 500 * CM, 0, 0),
                                    Vec(-100000, 0, -700000)),
       maneuvers |-> Arr(<<>>),
       totalDuration |-> Num(10)])

\* the ISS 501.4 m ahead on the same orbit, closing at 1.5 m/s
DocRendezvous ==
  Obj([version |-> Num(1), name |-> Str("Rendezvous"),
       initialState |-> StateDoc(Vec(LeoRadius, 0, 0), Vec(0, 0, -LeoSpeed)),
       issInitialState |-> StateDoc(Vec(LeoRadius, 0, -50140), Vec(0, 0, -LeoSpeed + 150)),
       maneuvers |-> Arr(<<>>),
       totalDuration |-> Num(10)])

\* a burn with a NaN delta-v component
DocInvalid ==
  Obj([version |-> Num(1), name |-> Str("Invalid"),
       initialState |-> StateDoc(Vec(LeoRadius, 0, 0), Vec(0, 0, -LeoSpeed)),
       maneuvers |-> Arr(<<ManeuverDoc("Bad", 0, 1, Arr(<<NaN, Num(0), Num(0)>>))>>),
       totalDuration |-> Num(10)])

ImportDocs == {DocOverlap, DocAtRest, DocReentry, DocRendezvous, DocInvalid}

\* frame times the browser delivers, in milliseconds
FrameTimes == {50, 250}
\* inclinations on the slider, in degrees
Inclinations == {0, 90}
\* keys the user presses
PressedKeys == {"KeyW"}
\* options of the preset selector picked where the restart is followed
PresetNames == {"leo-circular", "reentry"}

(***************************************************************************)
(* App.                                                                    *)
(***************************************************************************)
\* { position: [...sv.position], velocity: [...sv.velocity] }: a new object,
\* sharing nothing with the one it was read from
ShareStateVector(sv) ==
  [sharedWith |-> "source", position |-> sv.position, velocity |-> sv.velocity]
CopyStateVector(sv) ==
  [sharedWith |-> "nothing", position |-> sv.position, velocity |-> sv.velocity]

NoIss == [present |-> FALSE, sharedWith |-> "nothing",
          position |-> ZeroVec, velocity |-> ZeroVec]

NoCall == [called |-> FALSE, simTime |-> 0, dt |-> 0, isActive |-> FALSE, active |-> 0,
           scripted |-> ZeroVec, manual |-> ZeroVec, thrust |-> ZeroVec,
           stateBefore |-> <<>>, stateAfter |-> <<>>, thrustAfter |-> ZeroVec,
           value |-> <<>>]

\* CrashOverlay.hide
CrashOverlayHidden == [shown |-> FALSE, timer |-> FALSE, remaining |-> 0]
\* CrashOverlay.show
CrashOverlayShown == [shown |-> TRUE, timer |-> TRUE, remaining |-> COUNTDOWN_SECONDS]

\* App.loadSequence(seq)
LoadSequence(seq) ==
  /\ currentSequence' = seq
  /\ state' = [state EXCEPT !.stateVector = CopyStateVector(seq.initialState)]
  /\ simTime' = 0
  /\ accumulator' = 0
  /\ crashed' = FALSE
  /\ docked' = FALSE
  /\ dockedFlying' = FALSE
  /\ crashOverlay' = CrashOverlayHidden
  /\ dockingOverlay' = [shown |-> FALSE, undockButton |-> FALSE]
  /\ issStateVector' = IF seq.hasIss
                       THEN [present |-> TRUE] @@ CopyStateVector(seq.issInitialState)
                       ELSE NoIss
  /\ executor' = ExecutorLoad(executor, seq)
  /\ timeline' = seq
  /\ loadedSequence' = seq
  /\ lastCall' = NoCall
  /\ manualUsed' = FALSE
  /\ stepCount' = 0

\* no download
NoExport == <<>>

\* the state the constructor leaves: the default preset is loaded
AppInit ==
  /\ currentSequence = leoCircularPreset
  /\ state = [stateVector |-> CopyStateVector(leoCircularPreset.initialState),
              quaternion |-> IdentityQuat,
              thrustActive |-> FALSE,
              thrustDirection |-> ZeroVec]
  /\ issStateVector = NoIss
  /\ docked = FALSE
  /\ dockedFlying = FALSE
  /\ crashed = FALSE
  /\ simTime = 0
  /\ accumulator = 0
  /\ lastPresetName = "leo-circular"
  /\ timeControls = [paused |-> FALSE, warpIndex |-> 3]
  /\ keys = {}
  /\ lastQuat = IdentityQuat
  /\ executor = ExecutorLoad(NoExecutor, leoCircularPreset)
  /\ timeline = leoCircularPreset
  /\ crashOverlay = CrashOverlayHidden
  /\ dockingOverlay = [shown |-> FALSE, undockButton |-> FALSE]
  /\ exported = NoExport
  /\ pc = "idle"
  /\ steps = 0
  /\ manualThrust = ZeroVec
  /\ lastCall = NoCall
  /\ manualUsed = FALSE
  /\ stepCount = 0
  /\ loadedSequence = leoCircularPreset

\* TimeControls.update: Space toggles the pause, Period and Comma move the
\* warp index; each press is consumed
TimeControlsUpdate(tc, down) ==
  LET up == IF "Period" \in down /\ tc.warpIndex < Len(WARP_LEVELS)
            THEN tc.warpIndex + 1 ELSE tc.warpIndex
      idx == IF "Comma" \in down /\ up > 1 THEN up - 1 ELSE up
  IN  [paused |-> IF "Space" \in down THEN ~tc.paused ELSE tc.paused,
       warpIndex |-> idx]

\* while (this.accumulator >= PHYSICS_DT && steps < MAX_STEPS_PER_FRAME)
LoopConditionNoCap(acc, n) == acc >= PHYSICS_DT * MS
LoopCondition(acc, n) == acc >= PHYSICS_DT * MS /\ n < MAX_STEPS_PER_FRAME

\* if (this.maneuverExecutor.isActive) thrust = scriptedThrust; else thrust = manualThrust
SelectThrustSum(isActive, scripted, manual) == [i \in 1..3 |-> scripted[i] + manual[i]]
SelectThrust(isActive, scripted, manual) == IF isActive THEN scripted ELSE manual

\* the dt the loop passes to rk4Step
LoopStepDtBacklog == accumulator \div MS
LoopStepDt == PHYSICS_DT

\* the call rk4Step(state, dt, thrust): the value it returns and the two
\* argument arrays as the call leaves them
rk4StepInPlace(st6, dt, thrust) ==
  [value |-> rk4Result(st6, dt, thrust), state |-> rk4Result(st6, dt, thrust),
   thrust |-> thrust]
rk4Step(st6, dt, thrust) ==
  [value |-> rk4Result(st6, dt, thrust), state |-> st6, thrust |-> thrust]

\* this.crashOverlay.checkCrash(altitude)
checkCrash(altitude) == altitude < REENTRY_ALTITUDE

\* the first part of App.loop, up to the stepping loop
\* if (!this.timeControls.paused && !this.crashed && !this.docked)
PhysicsRunsWhilePaused(tc) == ~crashed /\ ~docked
PhysicsRuns(tc) == ~tc.paused /\ ~crashed /\ ~docked

BeginFrame ==
  /\ pc = "idle"
  /\ LET tc == TimeControlsUpdate(timeControls, keys)
         down == keys \ {"Space", "Period", "Comma"}
         activeMass == IF dockedFlying THEN SHUTTLE_MASS + ISS_MASS ELSE SHUTTLE_MASS
         thrustAccel == (THRUST_FORCE * CM) \div activeMass
         c == controlsUpdate([position |-> state.stateVector.position,
                              velocity |-> state.stateVector.velocity],
                             down, lastQuat, thrustAccel)
     IN
     /\ timeControls' = tc
     /\ keys' = down
     /\ steps' = 0
     /\ IF PhysicsRuns(tc)
        THEN /\ state' = [state EXCEPT !.quaternion = c.quaternion,
                                       !.thrustActive = c.thrustActive,
                                       !.thrustDirection = c.thrustDirection]
             /\ lastQuat' = c.lastQuat
             /\ \E raw \in FrameTimes :
                  LET frameDt == Min(raw, MAX_FRAME_DT)
                      acc == accumulator + frameDt * WARP_LEVELS[tc.warpIndex]
                  IN  /\ accumulator' = acc
                      /\ IF LoopCondition(acc, 0)
                         THEN pc' = "loop" /\ manualThrust' = c.thrust
                         ELSE pc' = "idle" /\ manualThrust' = ZeroVec
        ELSE UNCHANGED <<state, lastQuat, accumulator, pc, manualThrust>>
  /\ UNCHANGED <<currentSequence, issStateVector, docked, dockedFlying, crashed, simTime,
                 lastPresetName, executor, timeline, crashOverlay, dockingOverlay,
                 lastCall, manualUsed, stepCount, loadedSequence, valVars>>
  /\ exported' = NoExport

\* the thrust selection and the shuttle's rk4Step of one loop iteration
integrate(g, arg, manual) ==
  [g |-> g,
   isActive |-> IsActive(g.exec),
   thrust |-> SelectThrust(IsActive(g.exec), g.thrust, manual),
   arg |-> arg,
   call |-> rk4Step(arg, LoopStepDt, SelectThrust(IsActive(g.exec), g.thrust, manual))]

\* position and velocity of a state array of six
AsStateVector(iv, v6) ==
  [iv EXCEPT !.position = SubSeq(v6, 1, 3), !.velocity = SubSeq(v6, 4, 6)]

\* the ISS of one loop iteration: carried while docked and flying, else integrated
issStep(iv, flying, shuttle6) ==
  IF ~iv.present THEN iv
  ELSE IF flying THEN AsStateVector(iv, shuttle6)
  ELSE AsStateVector(iv, rk4Step(iv.position \o iv.velocity, PHYSICS_DT, ZeroVec).value)

\* the crash check and the docking check of one loop iteration
loopChecksWhileFlying(sv, iss, isDocked, flying) ==
  [crash |-> checkCrash(Norm(sv.position) - EARTH_RADIUS),
   dock |-> /\ ~checkCrash(Norm(sv.position) - EARTH_RADIUS)
            /\ iss.present /\ ~isDocked
            /\ Norm(Sub(sv.position, iss.position)) < DOCKING_DIST
            /\ Norm(Sub(sv.velocity, iss.velocity)) < DOCKING_REL_VEL]
loopChecks(sv, iss, isDocked, flying) ==
  [crash |-> checkCrash(Norm(sv.position) - EARTH_RADIUS),
   dock |-> /\ ~checkCrash(Norm(sv.position) - EARTH_RADIUS)
            /\ iss.present /\ ~isDocked /\ ~flying
            /\ Norm(Sub(sv.position, iss.position)) < DOCKING_DIST
            /\ Norm(Sub(sv.velocity, iss.velocity)) < DOCKING_REL_VEL]

\* the assignments of one loop iteration
Commit(r, sv, newIss, chk) ==
  /\ executor' = r.g.exec
  /\ state' = [stateVector |-> sv,
               quaternion |-> r.g.quaternion,
               thrustActive |-> r.g.thrustActive,
               thrustDirection |-> r.g.thrustDirection]
  /\ issStateVector' = newIss
  \* writes through an object shared with the sequence reach the sequence
  /\ currentSequence' =
       [currentSequence EXCEPT
          !.initialState = IF sv.sharedWith = "source"
                           THEN [position |-> sv.position, velocity |-> sv.velocity]
                           ELSE @,
          !.issInitialState = IF newIss.present /\ newIss.sharedWith = "source"
                              THEN [position |-> newIss.position,
                                    velocity |-> newIss.velocity]
                              ELSE @]
  /\ simTime' = simTime + PHYSICS_DT
  /\ accumulator' = accumulator - PHYSICS_DT * MS
  /\ steps' = steps + 1
  /\ crashed' = (crashed \/ chk.crash)
  /\ dockedFlying' = (dockedFlying /\ ~chk.crash)
  /\ crashOverlay' = IF chk.crash THEN CrashOverlayShown ELSE crashOverlay
  /\ docked' = (docked \/ chk.dock)
  /\ dockingOverlay' = [shown |-> dockingOverlay.shown \/ chk.dock,
                        undockButton |-> dockingOverlay.undockButton /\ ~chk.crash]
  /\ lastCall' = [called |-> TRUE, simTime |-> simTime, dt |-> LoopStepDt,
                  isActive |-> r.isActive, active |-> r.g.exec.activeManeuver,
                  scripted |-> r.g.thrust, manual |-> manualThrust,
                  thrust |-> r.thrust,
                  stateBefore |-> r.arg, stateAfter |-> r.call.state,
                  thrustAfter |-> r.call.thrust, value |-> r.call.value]
  /\ manualUsed' = (manualUsed \/ manualThrust # ZeroVec)
  /\ stepCount' = stepCount + 1
  /\ IF chk.crash \/ chk.dock
        \/ ~LoopCondition(accumulator - PHYSICS_DT * MS, steps + 1)
     THEN pc' = "idle" /\ manualThrust' = ZeroVec
     ELSE pc' = "loop"
          /\ manualThrust' = IF r.isActive THEN manualThrust ELSE r.call.thrust

Checked(r, sv, newIss) == Commit(r, sv, newIss, loopChecks(sv, newIss, docked, dockedFlying))

Integrated(r, sv) == Checked(r, sv, issStep(issStateVector, dockedFlying, r.call.value))

Thrust(r) == Integrated(r, AsStateVector(state.stateVector, r.call.value))

\* one iteration of the stepping loop of App.loop
Step(limit) ==
  /\ pc = "loop"
  /\ simTime < limit
  /\ Thrust(integrate(getThrustAtTime(executor, simTime,
                        [position |-> state.stateVector.position,
                         velocity |-> state.stateVector.velocity,
                         quaternion |-> state.quaternion,
                         thrustActive |-> state.thrustActive,
                         thrustDirection |-> state.thrustDirection]),
                      state.stateVector.position \o state.stateVector.velocity,
                      manualThrust))
  /\ UNCHANGED <<lastPresetName, timeControls, keys, lastQuat, timeline, loadedSequence,
                 valVars>>
  /\ exported' = NoExport

\* window keydown / keyup
KeyDown ==
  /\ pc = "idle"
  /\ \E code \in PressedKeys : keys' = keys \cup {code}
  /\ UNCHANGED <<currentSequence, state, issStateVector, docked, dockedFlying, crashed,
                 simTime, accumulator, lastPresetName, timeControls, lastQuat, executor,
                 timeline, crashOverlay, dockingOverlay, loopVars, valVars>>
  /\ exported' = NoExport

KeyUp ==
  /\ pc = "idle"
  /\ \E code \in keys : keys' = keys \ {code}
  /\ UNCHANGED <<currentSequence, state, issStateVector, docked, dockedFlying, crashed,
                 simTime, accumulator, lastPresetName, timeControls, lastQuat, executor,
                 timeline, crashOverlay, dockingOverlay, loopVars, valVars>>
  /\ exported' = NoExport

\* the warp slider's input listener
WarpSlider ==
  /\ pc = "idle"
  /\ \E i \in 2..Min(MaxWarpIndex, Len(WARP_LEVELS)) :
       timeControls' = [timeControls EXCEPT !.warpIndex = i]
  /\ UNCHANGED <<currentSequence, state, issStateVector, docked, dockedFlying, crashed,
                 simTime, accumulator, lastPresetName, keys, lastQuat, executor,
                 timeline, crashOverlay, dockingOverlay, loopVars, valVars>>
  /\ exported' = NoExport

\* the preset selector's change listener, for the options in names
presetChange(names) ==
  /\ pc = "idle"
  /\ \E val \in names : \E inc \in Inclinations :
       LET seq == getPreset(val) IN
       /\ lastPresetName' = val
       /\ LoadSequence([seq EXCEPT !.initialState = applyInclination(@, inc)])
  /\ UNCHANGED <<timeControls, keys, lastQuat, pc, steps, manualThrust>>
  /\ exported' = NoExport

\* with the camera not in the reference-frame lock, which loadSequence would leave
SelectPresetAmong(names) == presetChange(names) /\ UNCHANGED valVars

SelectPreset == SelectPresetAmong({"leo-circular"})

\* what the import handler obtains for each file: validateSequence(JSON.parse(text))
\* and, for a document it returned, the document as a ManeuverSequence
Imported ==
  [doc \in ImportDocs |->
     [returned |-> validateSequence(doc),
      seq |-> IF validateSequence(doc) = "data"
              THEN AsManeuverSequence(doc) ELSE leoCircularPreset]]

\* the file reader's onload: JSON.parse, validateSequence, loadSequence or an alert
ImportFile ==
  /\ pc = "idle"
  /\ \E doc \in ImportDocs :
       IF Imported[doc].returned = "data"
       THEN LoadSequence(Imported[doc].seq)
       ELSE UNCHANGED <<currentSequence, state, simTime, accumulator, crashed, docked,
                        dockedFlying, crashOverlay, dockingOverlay, issStateVector,
                        executor, timeline, loadedSequence, lastCall, manualUsed,
                        stepCount>>
  /\ UNCHANGED <<lastPresetName, timeControls, keys, lastQuat, pc, steps,
                 manualThrust, valVars>>
  /\ exported' = NoExport

\* the export button's click listener (a sequence is always loaded)
Export ==
  /\ pc = "idle"
  /\ exported' = serializeSequence(currentSequence)
  /\ UNCHANGED <<currentSequence, state, issStateVector, docked, dockedFlying, crashed,
                 simTime, accumulator, lastPresetName, timeControls, keys, lastQuat,
                 executor, timeline, crashOverlay, dockingOverlay, loopVars, valVars>>

\* CrashOverlay.restart with the callback App installs
RestartWithoutReload ==
  /\ crashed' = FALSE
  /\ crashOverlay' = CrashOverlayHidden
  /\ UNCHANGED <<currentSequence, state, issStateVector, docked, dockedFlying, simTime,
                 accumulator, executor, timeline, dockingOverlay, loadedSequence,
                 lastCall, manualUsed, stepCount>>
  /\ UNCHANGED <<lastPresetName, timeControls, keys, lastQuat, pc, steps,
                 manualThrust, valVars>>
Restart ==
  /\ LoadSequence(getPreset(lastPresetName))
  /\ UNCHANGED <<lastPresetName, timeControls, keys, lastQuat, pc, steps,
                 manualThrust, valVars>>

\* a click on the crash overlay
CrashOverlayClick ==
  /\ pc = "idle"
  /\ crashOverlay.shown
  /\ Restart
  /\ exported' = NoExport

\* the overlay's interval timer, once a second
CountdownTick ==
  /\ pc = "idle"
  /\ crashOverlay.timer
  /\ IF crashOverlay.remaining - 1 <= 0
     THEN Restart
     ELSE /\ crashOverlay' = [crashOverlay EXCEPT !.remaining = @ - 1]
          /\ UNCHANGED <<currentSequence, state, issStateVector, docked, dockedFlying,
                         crashed, simTime, accumulator, lastPresetName, timeControls, keys,
                         lastQuat, executor, timeline, dockingOverlay, loopVars,
                         valVars>>
  /\ exported' = NoExport

\* a click on the docking overlay: DockingOverlay.continue and App's callback
DockingContinueKeepingDocked ==
  /\ pc = "idle"
  /\ dockingOverlay.shown
  /\ dockedFlying' = TRUE
  /\ dockingOverlay' = [shown |-> FALSE, undockButton |-> TRUE]
  /\ UNCHANGED <<currentSequence, state, issStateVector, crashed, docked, simTime,
                 accumulator, lastPresetName, timeControls, keys, lastQuat, executor,
                 timeline, crashOverlay, loopVars, valVars>>
  /\ exported' = NoExport
DockingContinue ==
  /\ pc = "idle"
  /\ dockingOverlay.shown
  /\ docked' = FALSE
  /\ dockedFlying' = TRUE
  /\ dockingOverlay' = [shown |-> FALSE, undockButton |-> TRUE]
  /\ UNCHANGED <<currentSequence, state, issStateVector, crashed, simTime, accumulator,
                 lastPresetName, timeControls, keys, lastQuat, executor, timeline,
                 crashOverlay, loopVars, valVars>>
  /\ exported' = NoExport

\* a click on the undock button: App.undock
Undock ==
  /\ pc = "idle"
  /\ dockingOverlay.undockButton
  /\ docked' = FALSE
  /\ dockedFlying' = FALSE
  /\ dockingOverlay' = [dockingOverlay EXCEPT !.undockButton = FALSE]
  /\ UNCHANGED <<currentSequence, state, issStateVector, crashed, simTime, accumulator,
                 lastPresetName, timeControls, keys, lastQuat, executor, timeline,
                 crashOverlay, loopVars, valVars>>
  /\ exported' = NoExport

StepInBound == Step(MaxSimTime)

Next ==
  \/ BeginFrame
  \/ StepInBound
  \/ KeyDown
  \/ KeyUp
  \/ WarpSlider
  \/ SelectPreset
  \/ ImportFile
  \/ Export
  \/ CrashOverlayClick
  \/ CountdownTick
  \/ DockingContinue
  \/ Undock

(***************************************************************************)
(* The documents of the validator's tests: the base document with some     *)
(* properties overwritten (bad.name = '', bad.maneuvers[0].duration = -1). *)
(***************************************************************************)
base ==
  Obj([version |-> Num(1),
       name |-> Str("Test"),
       initialState |-> Obj([position |-> Vec(677100000, 0, 0),
                             velocity |-> Vec(0, 0, -767000)]),
       maneuvers |-> Arr(<<Obj([id |-> Str("Burn 1"), startTime |-> Num(100),
                                duration |-> Num(60), deltaV |-> Vec(1000, 0, 0)])>>),
       totalDuration |-> Num(1000)])

ScalarPool ==
  {Undefined, Null, Num(-1), Num(0), NaN, Infinity, Str(""), Str("x")}
VectorPool ==
  {Undefined, Str("x"), Arr(<<Num(1), Num(2)>>), Arr(<<Num(1), Num(2), Num(3), Num(4)>>),
   Arr(<<NaN, Num(0), Num(0)>>), Arr(<<Num(0), Str("0"), Num(0)>>),
   Arr(<<Num(0), Num(0), Null>>)}
StructPool ==
  {Undefined, Null, Num(1), Str("x"), Arr(<<>>), Obj([note |-> Str("x")])}

TopScalars == {"version", "name", "totalDuration"}
ManeuverScalars == {"id", "startTime", "duration"}

SetField(o, key, v) == Obj([k \in DOMAIN o.fields \cup {key} |->
                             IF k = key THEN v ELSE o.fields[k]])

\* no call of the physics core
NoArgs == [fn |-> "none"]
NoResult == [fn |-> "none"]

ValInit ==
  /\ data = base
  /\ edits = 0
  /\ returned = "none"
  /\ UiInit
  /\ args = NoArgs
  /\ result = NoResult
  /\ AppInit

\* bad.<key> = v
EditTop ==
  /\ edits < MaxEdits /\ data.kind = "object"
  /\ \E key \in TopScalars \cup {"initialState", "maneuvers"} :
       \E v \in (IF key \in TopScalars THEN ScalarPool ELSE StructPool) :
         data' = SetField(data, key, v)
  /\ edits' = edits + 1
  /\ returned' = "none"
  /\ UNCHANGED <<appVars, loopVars, fnVars, uiVars>>

\* bad.initialState.<key> = v
EditInitialState ==
  /\ edits < MaxEdits /\ data.kind = "object"
  /\ Prop(data, "initialState").kind = "object"
  /\ \E key \in {"position", "velocity"} : \E v \in VectorPool :
       data' = SetField(data, "initialState", SetField(Prop(data, "initialState"), key, v))
  /\ edits' = edits + 1
  /\ returned' = "none"
  /\ UNCHANGED <<appVars, loopVars, fnVars, uiVars>>

\* bad.maneuvers[0].<key> = v
EditManeuver ==
  /\ edits < MaxEdits /\ data.kind = "object"
  /\ Prop(data, "maneuvers").kind = "array"
  /\ Len(Prop(data, "maneuvers").items) >= 1
  /\ Prop(data, "maneuvers").items[1].kind = "object"
  /\ \E key \in ManeuverScalars \cup {"deltaV"} :
       \E v \in (IF key \in ManeuverScalars THEN ScalarPool ELSE VectorPool) :
         data' = SetField(data, "maneuvers",
                   Arr([Prop(data, "maneuvers").items EXCEPT
                          ![1] = SetField(@, key, v)]))
  /\ edits' = edits + 1
  /\ returned' = "none"
  /\ UNCHANGED <<appVars, loopVars, fnVars, uiVars>>

\* bad.maneuvers.push(v), with v a primitive or a copy of the first entry
PushManeuver ==
  /\ edits < MaxEdits /\ data.kind = "object"
  /\ Prop(data, "maneuvers").kind = "array"
  /\ \E v \in StructPool \cup {base.fields.maneuvers.items[1]} :
       data' = SetField(data, "maneuvers", Arr(Append(Prop(data, "maneuvers").items, v)))
  /\ edits' = edits + 1
  /\ returned' = "none"
  /\ UNCHANGED <<appVars, loopVars, fnVars, uiVars>>

\* the argument is not a document at all
ReplaceData ==
  /\ edits < MaxEdits
  /\ \E v \in StructPool : data' = v
  /\ edits' = edits + 1
  /\ returned' = "none"
  /\ UNCHANGED <<appVars, loopVars, fnVars, uiVars>>

\* expect(validateSequence(bad))
Validate ==
  /\ returned = "none"
  /\ returned' = validateSequence(data)
  /\ UNCHANGED <<data, edits, appVars, loopVars, fnVars, uiVars>>

ValNext ==
  \/ EditTop
  \/ EditInitialState
  \/ EditManeuver
  \/ PushManeuver
  \/ ReplaceData
  \/ Validate

SpecValidate == ValInit /\ [][ValNext]_vars

Init == ValInit

Spec == Init /\ [][Next]_vars

(***************************************************************************)
(* Frames at the highest warp: the slider has been moved to its last       *)
(* position and the frame loop runs by itself.                             *)
(***************************************************************************)
WarpInit ==
  /\ data = base
  /\ edits = 0
  /\ returned = "none"
  /\ UiInit
  /\ args = NoArgs
  /\ result = NoResult
  /\ currentSequence = leoCircularPreset
  /\ state = [stateVector |-> CopyStateVector(leoCircularPreset.initialState),
              quaternion |-> IdentityQuat,
              thrustActive |-> FALSE,
              thrustDirection |-> ZeroVec]
  /\ issStateVector = NoIss
  /\ docked = FALSE
  /\ dockedFlying = FALSE
  /\ crashed = FALSE
  /\ simTime = 0
  /\ accumulator = 0
  /\ lastPresetName = "leo-circular"
  /\ timeControls = [paused |-> FALSE, warpIndex |-> Len(WARP_LEVELS)]
  /\ keys = {}
  /\ lastQuat = IdentityQuat
  /\ executor = ExecutorLoad(NoExecutor, leoCircularPreset)
  /\ timeline = leoCircularPreset
  /\ crashOverlay = CrashOverlayHidden
  /\ dockingOverlay = [shown |-> FALSE, undockButton |-> FALSE]
  /\ exported = NoExport
  /\ pc = "idle"
  /\ steps = 0
  /\ manualThrust = ZeroVec
  /\ lastCall = NoCall
  /\ manualUsed = FALSE
  /\ stepCount = 0
  /\ loadedSequence = leoCircularPreset

StepAtWarp == Step(MaxWarpSimTime)

WarpNext ==
  \/ BeginFrame
  \/ StepAtWarp

SpecWarp == WarpInit /\ [][WarpNext]_vars

(***************************************************************************)
(* Crash and restart: frames, imports and preset selections, with the      *)
(* crash overlay's click and its interval timer.  A timer that is set      *)
(* fires: the countdown is weakly fair.                                    *)
(***************************************************************************)
SelectAnyPreset == SelectPresetAmong(PresetNames)

CrashNext ==
  \/ BeginFrame
  \/ StepInBound
  \/ SelectAnyPreset
  \/ ImportFile
  \/ CrashOverlayClick
  \/ CountdownTick

SpecCrash == Init /\ [][CrashNext]_vars /\ WF_vars(CountdownTick)

(***************************************************************************)
(* Properties of validateSequence, checked under SpecValidate.             *)
(***************************************************************************)
\* what the interface ManeuverSequence asks of a document, field by field
Has(o, key) == o.kind = "object" /\ key \in DOMAIN o.fields
IsFinite(v) == v.kind = "number" /\ v.fin
IsNonNegative(v) == IsFinite(v) /\ v.val >= 0
IsText(v) == v.kind = "string" /\ v.str # ""
IsTriple(v) == v.kind = "array" /\ Len(v.items) = 3 /\ \A i \in 1..3 : IsFinite(v.items[i])
IsManeuver(m) ==
  /\ Has(m, "id") /\ IsText(m.fields.id)
  /\ Has(m, "startTime") /\ IsNonNegative(m.fields.startTime)
  /\ Has(m, "duration") /\ IsNonNegative(m.fields.duration)
  /\ Has(m, "deltaV") /\ IsTriple(m.fields.deltaV)
WellFormed(d) ==
  /\ Has(d, "version") /\ IsFinite(d.fields.version)
  /\ Has(d, "name") /\ IsText(d.fields.name)
  /\ Has(d, "initialState")
  /\ Has(d.fields.initialState, "position") /\ IsTriple(d.fields.initialState.fields.position)
  /\ Has(d.fields.initialState, "velocity") /\ IsTriple(d.fields.initialState.fields.velocity)
  /\ Has(d, "maneuvers") /\ d.fields.maneuvers.kind = "array"
  /\ \A i \in 1..Len(d.fields.maneuvers.items) : IsManeuver(d.fields.maneuvers.items[i])
  /\ Has(d, "totalDuration") /\ IsNonNegative(d.fields.totalDuration)

\* C1: validateSequence(data) returns a non-null result exactly when data is a
\* well-formed document: an object with a finite version, a non-empty name,
\* an initialState of two triples of finite numbers, an array of maneuvers each
\* with a non-empty id, finite non-negative startTime and duration and a deltaV
\* triple, and a finite non-negative totalDuration.
C1_AcceptsExactlyWellFormed ==
  returned # "none" => (returned = "data" <=> WellFormed(data))

\* a document with two maneuvers was accepted
C1_Witness ==
  /\ returned = "data"
  /\ Len(data.fields.maneuvers.items) >= 2

\* C2: whatever the input, validateSequence never throws, and an input that is
\* not a well-formed document is answered by returning null.
C2_RejectsByReturningNull ==
  /\ returned # "TypeError"
  /\ (returned # "none" /\ ~WellFormed(data)) => returned = "null"

\* a document whose maneuver list holds a null entry was rejected by null
C2_Witness ==
  /\ returned = "null"
  /\ Has(data, "maneuvers") /\ data.fields.maneuvers.kind = "array"
  /\ \E i \in 1..Len(data.fields.maneuvers.items) :
       data.fields.maneuvers.items[i].kind = "null"

(***************************************************************************)
(* Properties of the executor and the frame loop, checked under Spec and   *)
(* SpecWarp.                                                               *)
(***************************************************************************)
\* the window of maneuver m contains t; the first maneuver whose window does
Contains(m, t) == m.startTime <= t /\ t < m.startTime + m.duration
FirstContaining(ms, t) ==
  IF \E i \in 1..Len(ms) : Contains(ms[i], t)
  THEN CHOOSE i \in 1..Len(ms) :
         Contains(ms[i], t) /\ \A j \in 1..(i - 1) : ~Contains(ms[j], t)
  ELSE 0

\* C3: at every call of getThrustAtTime the active maneuver is the first one in
\* list order whose window contains simTime; when no window contains simTime
\* the returned thrust is the zero vector and isActive is false.
C3_FirstWindowWins ==
  lastCall.called =>
    LET first == FirstContaining(loadedSequence.maneuvers, lastCall.simTime) IN
    /\ lastCall.active = first
    /\ lastCall.isActive = (first # 0)
    /\ first = 0 => lastCall.scripted = ZeroVec

\* a call at a time two windows contain, answered with the earlier-listed one
C3_Witness ==
  /\ lastCall.called
  /\ Cardinality({i \in 1..Len(loadedSequence.maneuvers) :
                    Contains(loadedSequence.maneuvers[i], lastCall.simTime)}) = 2
  /\ lastCall.active = 2

\* the state vector k steps after the load when only the script gives thrust
RECURSIVE Trajectory(_, _)
Trajectory(seq, k) ==
  IF k = 0 THEN seq.initialState.position \o seq.initialState.velocity
  ELSE LET before == Trajectory(seq, k - 1)
           g == getThrustAtTime(ExecutorLoad(NoExecutor, seq), (k - 1) * PHYSICS_DT,
                  [position |-> SubSeq(before, 1, 3), velocity |-> SubSeq(before, 4, 6),
                   quaternion |-> IdentityQuat, thrustActive |-> FALSE,
                   thrustDirection |-> ZeroVec])
       IN  rk4Result(before, PHYSICS_DT, g.thrust)

\* C4: with scripted thrust only, the state vector and simTime after k physics
\* steps are determined by the loaded sequence and k alone, however the frames
\* and warp levels divided the time: every step uses dt = PHYSICS_DT and the
\* thrust selected for simTime = k * PHYSICS_DT.
C4_StepsDetermineState ==
  ~manualUsed =>
    /\ simTime = stepCount * PHYSICS_DT
    /\ state.stateVector.position \o state.stateVector.velocity
         = Trajectory(loadedSequence, stepCount)
    /\ lastCall.called => lastCall.dt = PHYSICS_DT /\ lastCall.thrust = lastCall.scripted

\* two scripted steps taken in two different frames
C4_Witness ==
  /\ ~manualUsed
  /\ stepCount = 2
  /\ steps = 1
  /\ Len(loadedSequence.maneuvers) > 0

\* C5: within one frame the stepping loop runs at most MAX_STEPS_PER_FRAME
\* integrator steps, whatever backlog the accumulator holds.
C5_StepsPerFrameCapped == steps <= MAX_STEPS_PER_FRAME

\* the loop stopped at the cap with a backlog of whole steps left
C5_Witness ==
  /\ pc = "idle"
  /\ steps = MAX_STEPS_PER_FRAME
  /\ accumulator >= PHYSICS_DT * MS

\* C6: the thrust handed to rk4Step is the executor's output when a window of
\* the loaded sequence contains simTime and the manual vector otherwise.
C6_ScriptedOverridesManual ==
  lastCall.called =>
    lastCall.thrust =
      IF FirstContaining(loadedSequence.maneuvers, lastCall.simTime) # 0
      THEN lastCall.scripted ELSE lastCall.manual

\* a step under a scripted burn while the user held a thrust key
C6_Witness ==
  /\ lastCall.called
  /\ lastCall.isActive
  /\ lastCall.manual # ZeroVec
  /\ lastCall.scripted # ZeroVec
  /\ lastCall.thrust = lastCall.scripted

\* C7: a getThrustAtTime call that finds an active maneuver while the speed is
\* below the epsilon returns zero thrust and leaves state.quaternion,
\* state.thrustActive and state.thrustDirection as they were.
C7_SlowSpacecraftKeepsAttitude ==
  [][(/\ stepCount' = stepCount + 1
      /\ FirstContaining(loadedSequence.maneuvers, simTime) # 0
      /\ Norm(state.stateVector.velocity) < SPEED_EPSILON)
     => (/\ lastCall'.scripted = ZeroVec
         /\ state'.quaternion = state.quaternion
         /\ state'.thrustActive = state.thrustActive
         /\ state'.thrustDirection = state.thrustDirection)]_vars

\* a call with an active maneuver on a spacecraft at rest
C7_Witness ==
  /\ lastCall.called
  /\ lastCall.isActive
  /\ Norm(SubSeq(lastCall.stateBefore, 4, 6)) < SPEED_EPSILON
  /\ lastCall.scripted = ZeroVec

\* C8: after loadSequence, and after clear, isActive is false whatever was
\* active before, and it stays false until a getThrustAtTime call finds a
\* window of the loaded sequence that contains simTime.
C8_LoadResetsActive ==
  /\ ~lastCall.called => ~IsActive(executor)
  /\ lastCall.called =>
       IsActive(executor)
         = (FirstContaining(loadedSequence.maneuvers, lastCall.simTime) # 0)
  /\ ~IsActive(ExecutorClear(executor))
  /\ \A doc \in ImportDocs : ~IsActive(ExecutorLoad(executor, Imported[doc].seq))

\* a sequence was loaded and never queried, with burns in it
C8_Witness ==
  /\ ~lastCall.called
  /\ ~IsActive(executor)
  /\ Len(executor.sequence.maneuvers) > 0
  /\ FirstContaining(executor.sequence.maneuvers, simTime) # 0

\* C9: the current sequence stays as loadSequence received it through frames,
\* steps, crash, docking and undocking, and an export serializes it unchanged.
C9_SequenceNeverPatched ==
  /\ currentSequence = loadedSequence
  /\ executor.sequence = loadedSequence
  /\ exported # NoExport => exported = serializeSequence(loadedSequence)

\* an export after the spacecraft has moved away from its initial state
C9_Witness ==
  /\ exported # NoExport
  /\ stepCount >= 1
  /\ state.stateVector.position # loadedSequence.initialState.position

\* C10: rk4Step leaves the state and thrust arrays it was given as they were
\* and returns a new array of six components.
C10_Rk4StepIsPure ==
  lastCall.called =>
    /\ lastCall.stateAfter = lastCall.stateBefore
    /\ lastCall.thrustAfter = lastCall.thrust
    /\ Len(lastCall.value) = 6

\* a call whose result differs from the state it was given
C10_Witness ==
  /\ lastCall.called
  /\ lastCall.value # lastCall.stateBefore

(***************************************************************************)
(* C11.  At each integrator step the net acceleration propagated through   *)
(* the RK4 stages is the sum of gravity, atmospheric drag and any active   *)
(* thrust: the value a step of the loop returns is the RK4 step of the     *)
(* derivative that adds dragAcceleration to gravity and thrust.            *)
(***************************************************************************)
DragValue(d) == IF d.neg THEN -d.abs ELSE d.abs

DerivativeWithDrag(st6, thrust) ==
  LET g == gravitationalAcceleration(st6[1], st6[2], st6[3])
      d == dragAcceleration(st6[1], st6[2], st6[3], st6[4], st6[5], st6[6])
  IN  <<st6[4], st6[5], st6[6],
        g[1] + DragValue(d[1]) + thrust[1],
        g[2] + DragValue(d[2]) + thrust[2],
        g[3] + DragValue(d[3]) + thrust[3]>>

Rk4WithDrag(st6, dt, thrust) ==
  LET k1 == DerivativeWithDrag(st6, thrust)
      k2 == DerivativeWithDrag(addScaled(st6, k1, dt, 2), thrust)
      k3 == DerivativeWithDrag(addScaled(st6, k2, dt, 2), thrust)
      k4 == DerivativeWithDrag(addScaled(st6, k3, dt, 1), thrust)
  IN  [i \in 1..6 |-> st6[i] + Quot(dt * (k1[i] + 2 * k2[i] + 2 * k3[i] + k4[i]), 6)]

C11_DragIsIntegrated ==
  lastCall.called =>
    lastCall.value = Rk4WithDrag(lastCall.stateBefore, lastCall.dt, lastCall.thrust)

(***************************************************************************)
(* C12.  A physics step that leaves the spacecraft below 70 km makes the   *)
(* simulation crashed in that step, shows the crash overlay and ends the   *)
(* frame's stepping loop; from a crashed state a click on the overlay or   *)
(* the expiry of the countdown restarts: the overlay is hidden, its timer  *)
(* stopped, crashed cleared and the last selected preset reloaded at       *)
(* simTime = 0, and this eventually happens.                               *)
(***************************************************************************)
BelowReentry == Norm(state.stateVector.position) - EARTH_RADIUS < REENTRY_ALTITUDE

C12_CrashedInStep ==
  (stepCount > 0 /\ BelowReentry) =>
    /\ crashed
    /\ crashOverlay.shown /\ crashOverlay.timer
    /\ pc = "idle"

C12_Restarted ==
  /\ ~crashed
  /\ ~crashOverlay.shown /\ ~crashOverlay.timer
  /\ simTime = 0

C12_RestartStep ==
  (CrashOverlayClick \/ (CountdownTick /\ crashOverlay.remaining <= 1)) =>
    /\ C12_Restarted'
    /\ currentSequence' = getPreset(lastPresetName)
    /\ state'.stateVector.position = getPreset(lastPresetName).initialState.position
    /\ state'.stateVector.velocity = getPreset(lastPresetName).initialState.velocity

C12_CrashThenRestart ==
  /\ []C12_CrashedInStep
  /\ [][C12_RestartStep]_vars
  /\ (crashed ~> C12_Restarted)

\* crashed with whole steps left in the accumulator, the countdown about to
\* expire, the reentry preset being the last one selected
C12_Witness ==
  /\ crashed /\ crashOverlay.shown
  /\ stepCount > 0 /\ BelowReentry
  /\ accumulator >= PHYSICS_DT * MS
  /\ crashOverlay.remaining = 1
  /\ lastPresetName = "reentry"

(***************************************************************************)
(* C13.  docked becomes true, and the docking overlay is shown, exactly at *)
(* a physics step after which an ISS is present, the shuttle was neither   *)
(* docked nor flying docked, the step did not crash, the distance between  *)
(* shuttle and ISS is below 500 m and their relative speed below 2 m/s;    *)
(* docked is never true in a sequence without an ISS.                      *)
(***************************************************************************)
C13_Envelope(sv, iss) ==
  /\ iss.present
  /\ Norm(Sub(sv.position, iss.position)) < 500 * CM
  /\ Norm(Sub(sv.velocity, iss.velocity)) < 2 * CM

C13_DockingStep ==
  /\ (~docked /\ docked') <=>
       /\ stepCount' = stepCount + 1
       /\ ~docked /\ ~dockedFlying /\ ~crashed'
       /\ C13_Envelope(state'.stateVector, issStateVector')
  /\ (~docked /\ docked') => dockingOverlay'.shown

C13_DockedExactlyInEnvelope ==
  /\ [][C13_DockingStep]_vars
  /\ [](docked => currentSequence.hasIss /\ issStateVector.present)

\* docked by the latest step, the overlay showing
C13_Witness ==
  /\ docked /\ dockingOverlay.shown
  /\ lastCall.called /\ stepCount > 0
  /\ C13_Envelope(state.stateVector, issStateVector)

(***************************************************************************)
(* TrajectoryPredictor.  A sample point is three doubles, in metres, or    *)
(* NaN in every component.  The cosine and sine of a whole number of       *)
(* quarter turns are taken as exactly -1, 0 or 1, and numPoints divides 4. *)
(***************************************************************************)
NaNPoint == [nan |-> TRUE, xyz |-> <<FZero, FZero, FZero>>]
PointOf(x, y, z) == [nan |-> FALSE, xyz |-> <<x, y, z>>]

CosQ(q) == CASE q % 4 = 0 -> 1 [] q % 4 = 2 -> -1 [] OTHER -> 0
SinQ(q) == CASE q % 4 = 1 -> 1 [] q % 4 = 3 -> -1 [] OTHER -> 0

\* lines 37-39: the direction of perigee, for raan O, inclination I, aop W
perifocalP(O, I, W) ==
  <<CosQ(O) * CosQ(W) - SinQ(O) * SinQ(W) * CosQ(I),
    SinQ(W) * SinQ(I),
    SinQ(O) * CosQ(W) + CosQ(O) * SinQ(W) * CosQ(I)>>

\* lines 41-43: the direction a quarter turn ahead of perigee
perifocalQ(O, I, W) ==
  <<-CosQ(O) * SinQ(W) - SinQ(O) * CosQ(W) * CosQ(I),
    CosQ(W) * SinQ(I),
    -SinQ(O) * SinQ(W) + CosQ(O) * CosQ(W) * CosQ(I)>>

\* lines 50-57, for the radius r at the true anomaly nu
pointAt(r, nu, P, Q) ==
  PointOf(FAdd(FMul(FMul(r, FInt(CosQ(nu))), FInt(P[1])),
               FMul(FMul(r, FInt(SinQ(nu))), FInt(Q[1]))),
          FAdd(FMul(FMul(r, FInt(CosQ(nu))), FInt(P[2])),
               FMul(FMul(r, FInt(SinQ(nu))), FInt(Q[2]))),
          FAdd(FMul(FMul(r, FInt(CosQ(nu))), FInt(P[3])),
               FMul(FMul(r, FInt(SinQ(nu))), FInt(Q[3]))))

\* lines 47-49: sample k of numPoints, nu = 2 pi k / numPoints
samplePoint(semiLatusRectum, e, k, numPoints, P, Q) ==
  pointAt(FDiv(semiLatusRectum,
               FAdd(FOne, FMul(e, FInt(CosQ((4 * k) \div numPoints))))),
          (4 * k) \div numPoints, P, Q)

\* lines 29-60; a NaN inclination makes every component of P and Q NaN
analyticSamples(el, numPoints) ==
  IF el.inclination.nan THEN [k \in 1..numPoints |-> NaNPoint]
  ELSE [k \in 1..numPoints |->
          samplePoint(FMul(el.semiMajorAxis.value,
                           FSub(FOne, FMul(el.eccentricity, el.eccentricity))),
                      el.eccentricity, k - 1, numPoints,
                      perifocalP(el.raan.quarters, el.inclination.quarters,
                                 el.argumentOfPeriapsis.quarters),
                      perifocalQ(el.raan.quarters, el.inclination.quarters,
                                 el.argumentOfPeriapsis.quarters))]

\* points.push(points[0])
closedLoop(points) == Append(points, points[1])

\* a state of the integrator, in cm and cm/s, as a point in metres
pointOfState(st6) ==
  PointOf(FDiv(FInt(st6[1]), FromInt(CM, 0)), FDiv(FInt(st6[2]), FromInt(CM, 0)),
          FDiv(FInt(st6[3]), FromInt(CM, 0)))

\* predictOrbitNumerical: numPoints states, 30 s apart, without thrust
RECURSIVE predictOrbitNumericalFrom(_, _)
predictOrbitNumericalFrom(st6, n) ==
  IF n = 0 THEN <<>>
  ELSE <<pointOfState(st6)>>
         \o predictOrbitNumericalFrom(rk4Step(st6, 30, ZeroVec).value, n - 1)

predictOrbitNumerical(sv, numPoints) ==
  predictOrbitNumericalFrom([i \in 1..6 |-> IF i <= 3 THEN sv.position[i] * CM
                                            ELSE sv.velocity[i - 3] * CM],
                            numPoints)

predictOrbitWith(el, sv, numPoints) ==
  IF ~el.semiMajorAxis.finite \/ FAtLeastOne(el.eccentricity)
  THEN [route |-> "numerical", points |-> predictOrbitNumerical(sv, numPoints)]
  ELSE [route |-> "analytic", points |-> closedLoop(analyticSamples(el, numPoints))]

predictOrbit(sv, numPoints) ==
  CHOOSE pts \in { predictOrbitWith(el, sv, numPoints) : el \in {stateToElements(sv)} }
    : TRUE

(***************************************************************************)
(* The physics core called directly, as its unit tests call it: a call is  *)
(* drawn from a bounded set of arguments and the function applied to it.   *)
(***************************************************************************)
AxisPoint(axis, r) ==
  CASE axis = 1 -> <<r, 0, 0>>
    [] axis = 2 -> <<0, r, 0>>
    [] OTHER -> <<0, 0, -r>>

\* altitudes below the surface, inside the atmosphere, at and above the ceiling
DragAltitudes == {-1 * KM, 70 * KM, 100 * KM, 600 * KM, 601 * KM, 700 * KM}
DragVelocities ==
  {<<0, 0, 0>>, <<750000, 0, 0>>, <<0, 0, -770000>>, <<-100000, 0, -700000>>}

DragCalls ==
  { [fn |-> "dragAcceleration", altitude |-> h,
     position |-> AxisPoint(k, EARTH_RADIUS + h), velocity |-> v] :
      h \in DragAltitudes, k \in 1..3, v \in DragVelocities }

CallDragAcceleration ==
  /\ args.fn = "dragAcceleration"
  /\ result = NoResult
  /\ result' = [fn |-> "dragAcceleration",
                value |-> dragAcceleration(args.position[1], args.position[2],
                                           args.position[3], args.velocity[1],
                                           args.velocity[2], args.velocity[3])]
  /\ UNCHANGED <<data, edits, returned, args, appVars, loopVars, uiVars>>

\* pairs of circular-orbit altitudes, km, the lower first
HohmannAltitudesKm == {200, 400, 800, 2000, 10000}
PresetCalls ==
  { [fn |-> "buildHohmannPreset", lowAltKm |-> a, highAltKm |-> b] :
      <<a, b>> \in {p \in HohmannAltitudesKm \X HohmannAltitudesKm : p[1] < p[2]} }

\* the preset is built for raising first, then for lowering between the same altitudes
CallBuildHohmannPreset ==
  /\ args.fn = "buildHohmannPreset"
  /\ \/ /\ result = NoResult
        /\ result' = [fn |-> "buildHohmannPreset",
                      built |-> <<buildHohmannPreset("Raise", args.lowAltKm,
                                                     args.highAltKm)>>]
     \/ /\ result # NoResult
        /\ Len(result.built) = 1
        /\ result' = [result EXCEPT !.built =
                        Append(@, buildHohmannPreset("Lower", args.highAltKm,
                                                     args.lowAltKm))]
  /\ UNCHANGED <<data, edits, returned, args, appVars, loopVars, uiVars>>

\* radii k * 2^j metres as <<k, j>>: 4.5 m, 9/4096 m, 3 m, and orbital radii
\* (200 km, 400 km and 10000 km above the surface, geostationary)
HohmannRadii ==
  {<<9, -1>>, <<9, -12>>, <<3, 0>>, <<6571000, 0>>, <<6771000, 0>>,
   <<16371000, 0>>, <<42164000, 0>>}
HohmannCalls ==
  { [fn |-> "hohmannTransfer", r1 |-> a, r2 |-> b] :
      a \in HohmannRadii, b \in HohmannRadii }

CallHohmannTransfer ==
  /\ args.fn = "hohmannTransfer"
  /\ result = NoResult
  /\ result' = [fn |-> "hohmannTransfer",
                value |-> hohmannTransferDouble(FromInt(args.r1[1], args.r1[2]),
                                                FromInt(args.r2[1], args.r2[2]))]
  /\ UNCHANGED <<data, edits, returned, args, appVars, loopVars, uiVars>>

\* state vectors in metres and m/s: a position on the x or z axis at 408 km or
\* 9573 km of altitude, and a velocity that is zero or along an axis (radial,
\* equatorial or polar) at 1 m/s, below and above the escape speed
OrbitRadii == {6779000, 15944000}
OrbitSpeeds == {1, 4000, 8000}
AxisVectors(len) ==
  {<<len, 0, 0>>, <<-len, 0, 0>>, <<0, len, 0>>, <<0, -len, 0>>,
   <<0, 0, len>>, <<0, 0, -len>>}
OrbitStates ==
  { [position |-> p, velocity |-> w] :
      p \in UNION { {<<r, 0, 0>>, <<0, 0, -r>>} : r \in OrbitRadii },
      w \in {<<0, 0, 0>>} \cup UNION { AxisVectors(v) : v \in OrbitSpeeds } }

ElementsCalls == { [fn |-> "stateToElements", sv |-> sv] : sv \in OrbitStates }

CallStateToElements ==
  /\ args.fn = "stateToElements"
  /\ result = NoResult
  /\ result' = [fn |-> "stateToElements", value |-> stateToElements(args.sv)]
  /\ UNCHANGED <<data, edits, returned, args, appVars, loopVars, uiVars>>

NumPointsChoices == {2, 4}
OrbitCalls ==
  { [fn |-> "predictOrbit", sv |-> sv, numPoints |-> n] :
      sv \in OrbitStates, n \in NumPointsChoices }

CallPredictOrbit ==
  /\ args.fn = "predictOrbit"
  /\ result = NoResult
  /\ result' = [fn |-> "predictOrbit", value |-> predictOrbit(args.sv, args.numPoints)]
  /\ UNCHANGED <<data, edits, returned, args, appVars, loopVars, uiVars>>

\* ---- the specification of the direct calls ----
CoreCalls == DragCalls \cup PresetCalls \cup HohmannCalls \cup ElementsCalls
               \cup OrbitCalls

CoreInit ==
  /\ args \in CoreCalls
  /\ result = NoResult
  /\ data = base
  /\ edits = 0
  /\ returned = "none"
  /\ UiInit
  /\ AppInit

CoreNext ==
  \/ CallDragAcceleration
  \/ CallBuildHohmannPreset
  \/ CallHohmannTransfer
  \/ CallStateToElements
  \/ CallPredictOrbit

SpecCore == CoreInit /\ [][CoreNext]_vars

(***************************************************************************)
(* C17.  dragAcceleration returns exactly the zero vector whenever the     *)
(* altitude is negative or above the 600 km ceiling, or the speed is below *)
(* 1e-6 m/s, whatever the position and the velocity.                       *)
(***************************************************************************)
C17_OutsideAtmosphere(a) ==
  \/ a.altitude < 0
  \/ a.altitude > 600 * KM
  \/ a.velocity = <<0, 0, 0>>

C17_ZeroDragOutside ==
  (args.fn = "dragAcceleration" /\ result.fn = "dragAcceleration"
     /\ C17_OutsideAtmosphere(args))
    => /\ \A i \in 1..3 : ~result.value[i].nan /\ ~result.value[i].neg
                          /\ result.value[i].abs = 0

\* a moving spacecraft below the surface got the zero vector
C17_Witness ==
  /\ args.fn = "dragAcceleration" /\ result.fn = "dragAcceleration"
  /\ args.altitude < 0 /\ args.velocity # <<0, 0, 0>>
  /\ result.value = ZeroDrag

(***************************************************************************)
(* C18.  For altitudes a < b, the burns buildHohmannPreset builds for      *)
(* lowering (b to a) are the negated raising (a to b) burns with the ends  *)
(* swapped: the first lowering burn is minus the second raising burn, the  *)
(* second is minus the first, every normal and radial component is 0, and  *)
(* the interval between the two burn starts is the same.                   *)
(***************************************************************************)
C18_BothBuilt ==
  /\ args.fn = "buildHohmannPreset"
  /\ result.fn = "buildHohmannPreset"
  /\ Len(result.built) = 2

C18_Mirrored(up, down) ==
  /\ Len(up) = 2 /\ Len(down) = 2
  /\ down[1].deltaV[1] = -up[2].deltaV[1]
  /\ down[2].deltaV[1] = -up[1].deltaV[1]
  /\ \A i \in 1..2 : /\ up[i].deltaV[2] = 0 /\ up[i].deltaV[3] = 0
                     /\ down[i].deltaV[2] = 0 /\ down[i].deltaV[3] = 0
  /\ down[2].startTime - down[1].startTime = up[2].startTime - up[1].startTime

C18_LoweringMirrorsRaising ==
  C18_BothBuilt => C18_Mirrored(result.built[1].maneuvers, result.built[2].maneuvers)

\* both sequences built, the two raising burns different and both prograde
C18_Witness ==
  /\ C18_BothBuilt
  /\ result.built[1].maneuvers[1].deltaV[1] > result.built[1].maneuvers[2].deltaV[1]
  /\ result.built[1].maneuvers[2].deltaV[1] > 0
  /\ result.built[2].maneuvers[1].deltaV[1] < 0

(***************************************************************************)
(* C19.  For every radius r > 0, hohmannTransfer(r, r) returns dv1 and dv2 *)
(* equal to 0 within 1e-9 m/s.  In doubles mu * (2 / r - 1 / r) and mu / r *)
(* may round to neighbouring values, so the two speeds differ by a unit in *)
(* the last place of sqrt(mu / r): that is below 1e-9 m/s for the radii of *)
(* orbits and above it for radii of a few metres.                          *)
(***************************************************************************)
C19_EqualRadiiReturned ==
  /\ args.fn = "hohmannTransfer"
  /\ result.fn = "hohmannTransfer"
  /\ args.r1 = args.r2

C19_NoBurn == FWithin1e9(result.value.dv1) /\ FWithin1e9(result.value.dv2)

C19_OrbitalRadius(r) == r[2] >= 0 /\ r[1] >= 6371000

C16_Returned == args.fn = "stateToElements" /\ result.fn = "stateToElements"

\* h = r x v, from the arguments (km and m/s)
C16_AngularMomentum(sv) ==
  <<(sv.position[2] \div 1000) * sv.velocity[3] - (sv.position[3] \div 1000) * sv.velocity[2],
    (sv.position[3] \div 1000) * sv.velocity[1] - (sv.position[1] \div 1000) * sv.velocity[3],
    (sv.position[1] \div 1000) * sv.velocity[2] - (sv.position[2] \div 1000) * sv.velocity[1]>>

C16_IsZeroAngle(angle) == ~angle.nan /\ angle.quarters = 0

C16_AnglesFinite ==
  C16_Returned =>
    /\ ~result.value.inclination.nan /\ ~result.value.raan.nan
    /\ ~result.value.argumentOfPeriapsis.nan /\ ~result.value.trueAnomaly.nan
    /\ (C16_AngularMomentum(args.sv)[1] = 0 /\ C16_AngularMomentum(args.sv)[3] = 0)
         => /\ C16_IsZeroAngle(result.value.raan)
            /\ C16_IsZeroAngle(result.value.argumentOfPeriapsis)
    /\ ~FAbove1e10(result.value.eccentricity)
         => /\ C16_IsZeroAngle(result.value.argumentOfPeriapsis)
            /\ C16_IsZeroAngle(result.value.trueAnomaly)

(***************************************************************************)
(* C14.  The first and the last sample point returned by predictOrbit      *)
(* equal the position of the input state exactly.                          *)
(***************************************************************************)
C14_Returned == args.fn = "predictOrbit" /\ result.fn = "predictOrbit"

C14_Position(sv) ==
  PointOf(FInt(sv.position[1]), FInt(sv.position[2]), FInt(sv.position[3]))

C14_PhaseLocked ==
  C14_Returned =>
    /\ result.value.points[1] = C14_Position(args.sv)
    /\ result.value.points[Len(result.value.points)] = C14_Position(args.sv)

(***************************************************************************)
(* C15.  predictOrbit takes the numerical fallback whenever the            *)
(* eccentricity is at least 1, the semi-major axis is not finite or the    *)
(* angular momentum is zero, and evaluates the conic formula only outside  *)
(* these three cases.                                                      *)
(***************************************************************************)
C15_Degenerate(sv, el) ==
  \/ FAtLeastOne(el.eccentricity)
  \/ ~el.semiMajorAxis.finite
  \/ C16_AngularMomentum(sv) = <<0, 0, 0>>

C15_FallbackWhenDegenerate ==
  C14_Returned =>
    (result.value.route = "numerical" <=> C15_Degenerate(args.sv, stateToElements(args.sv)))

(***************************************************************************)
(* C20.  After undock() the shuttle and the ISS fly undocked: docked does  *)
(* not become true again, and the docking overlay does not reappear,       *)
(* unless the shuttle has first left the docking envelope (distance of at  *)
(* least 500 m or relative speed of at least 2 m/s) and re-entered it.     *)
(* The docking check runs after every step, so a state flown undocked      *)
(* inside the envelope after the first step exists only between undock()   *)
(* and the shuttle's leaving the envelope.                                 *)
(***************************************************************************)
C20_Inside(sv, iss) ==
  /\ iss.present
  /\ Norm(Sub(sv.position, iss.position)) < 500 * CM
  /\ Norm(Sub(sv.velocity, iss.velocity)) < 2 * CM

C20_UndockedInside ==
  /\ ~docked /\ ~dockedFlying /\ ~crashed
  /\ simTime > 0
  /\ C20_Inside(state.stateVector, issStateVector)

C20_UndockingIsNotReversed ==
  [][C20_UndockedInside => (~docked' /\ ~dockingOverlay'.shown)]_vars

(***************************************************************************)
(* The camera's handlers.  A frame is the camera part of App.loop; what    *)
(* the physics part of the same frame does to the camera is to move the    *)
(* shuttle, by `jump`, away from where the camera was placed.              *)
(***************************************************************************)
MaxZoomInputs == 3
WheelDeltas == {-990, 250}
PinchDistances == {0, 100, 200}
PointerIds == {1, 2}
Jumps == {0, 13942000}
OrbitDiameter == 13942000

\* x * (1 + deltaY * 0.001)
WheelScaled(x, deltaY) ==
  (x \div 1000) * (1000 + deltaY) + ((x % 1000) * (1000 + deltaY)) \div 1000

\* OrbitControls.update(): the pending dolly moves the camera along its line of sight
orbitControlsUpdate(c) ==
  [c EXCEPT !.cameraDistance = IF c.dolly = 0 THEN @
                               ELSE Max(minDistance, WheelScaled(@, c.dolly)),
            !.dolly = 0,
            !.updated = TRUE]

startEarthRecenterTransition(c) == [c EXCEPT !.cameraTransition = "earth"]
startShuttleRecenterTransition(c) == [c EXCEPT !.cameraTransition = "shuttle"]

\* loop, lines 813-820
introStep(c, late) ==
  IF c.introEarthTransitionQueued /\ late
  THEN startEarthRecenterTransition(
         [c EXCEPT !.introEarthTransitionQueued = FALSE, !.cameraLockTarget = "earth"])
  ELSE c

\* the shuttle has moved since the camera was placed
shuttleJump(c, jump) == [c EXCEPT !.targetOffset = Min(@ + jump, OrbitDiameter)]

\* loop, lines 988-1036, after updateShuttleRefFrameLock
shuttleBranch(c, done) ==
  IF c.cameraTransition # "none"
  THEN IF done
       THEN [c EXCEPT !.cameraTransition = "none",
                      !.cameraDistance = defaultShuttleCameraDistance,
                      !.targetOffset = 0]
       ELSE c
  ELSE IF c.shuttleRefFrameLock
       THEN [c EXCEPT !.cameraDistance = c.shuttleRefDistance, !.targetOffset = 0]
       ELSE [c EXCEPT !.targetOffset = 0]

\* loop, lines 965-1042
cameraBranch(c, done) ==
  CASE c.cameraLockTarget = "earth" ->
         IF c.cameraTransition # "none" /\ done
         THEN [c EXCEPT !.cameraTransition = "none",
                        !.cameraDistance = EarthPoseDistance,
                        !.targetOffset = EarthPoseOffset]
         ELSE c
    [] c.cameraLockTarget = "shuttle" ->
         shuttleBranch(updateShuttleRefFrameLock(c, c.cameraDistance + c.targetOffset), done)
    [] c.cameraLockTarget = "free" ->
         [(IF c.shuttleRefFrameLock THEN exitRefLock(c) ELSE c)
            EXCEPT !.cameraTransition = "none"]

\* loop, lines 1049-1052
frameEnd(c) ==
  IF ~c.shuttleRefFrameLock THEN orbitControlsUpdate(c) ELSE [c EXCEPT !.updated = FALSE]

cameraFrame(c, late, jump, done) ==
  [frameEnd(cameraBranch(shuttleJump(introStep(c, late), jump), done))
     EXCEPT !.handler = "frame"]

CameraFrame ==
  /\ pc = "idle"
  /\ \E late \in BOOLEAN : \E jump \in Jumps : \E done \in BOOLEAN :
       camera' = cameraFrame(camera, late, jump, done)
  /\ UNCHANGED <<data, edits, returned, fnVars, input, joystick, appVars, loopVars>>

\* the change handler of the camera-target select, lines 382-399
CameraTargetChange ==
  /\ pc = "idle"
  /\ \E nextTarget \in {"earth", "shuttle", "free"} \ {camera.cameraLockTarget} :
       LET previousTarget == camera.cameraLockTarget
           c1 == [camera EXCEPT !.cameraLockTarget = nextTarget,
                                !.introEarthTransitionQueued = FALSE]
           c2 == IF previousTarget = "earth" /\ nextTarget = "shuttle"
                 THEN startShuttleRecenterTransition(c1)
                 ELSE IF nextTarget = "earth" /\ previousTarget # "earth"
                      THEN startEarthRecenterTransition(c1)
                      ELSE [c1 EXCEPT !.cameraTransition = "none"]
           c3 == IF nextTarget # "shuttle" /\ c2.shuttleRefFrameLock
                 THEN exitRefLock(c2) ELSE c2
       IN  camera' = [c3 EXCEPT !.handler = "target"]
  /\ UNCHANGED <<data, edits, returned, fnVars, input, joystick, appVars, loopVars>>

\* the click handler of the recenter button, lines 400-403
CameraRecenter ==
  /\ pc = "idle"
  /\ camera.cameraLockTarget = "shuttle"
  /\ camera' = [startShuttleRecenterTransition(camera) EXCEPT !.handler = "other"]
  /\ UNCHANGED <<data, edits, returned, fnVars, input, joystick, appVars, loopVars>>

\* mousedown with button 2, lines 405-416
CameraRightClick ==
  /\ pc = "idle"
  /\ LET c1 == [camera EXCEPT !.cameraLockTarget = "free",
                              !.cameraTransition = "none",
                              !.introEarthTransitionQueued = FALSE]
     IN  camera' = [(IF c1.shuttleRefFrameLock THEN exitRefLock(c1) ELSE c1)
                      EXCEPT !.handler = "rightclick"]
  /\ UNCHANGED <<data, edits, returned, fnVars, input, joystick, appVars, loopVars>>

\* onRefLockWheel
onRefLockWheel(c, deltaY) ==
  [c EXCEPT !.shuttleRefDistance = Max(minDistance, WheelScaled(@, deltaY))]

\* a wheel event on the canvas: the custom listener when it is attached, the listener
\* of the OrbitControls when enableZoom is set
CanvasWheel ==
  /\ pc = "idle"
  /\ camera.zoomInputs < MaxZoomInputs
  /\ camera.refLockListenersAttached \/ camera.controls.enableZoom
  /\ \E deltaY \in WheelDeltas :
       LET c1 == IF camera.refLockListenersAttached
                 THEN onRefLockWheel(camera, deltaY) ELSE camera
           c2 == IF camera.controls.enableZoom THEN [c1 EXCEPT !.dolly = deltaY] ELSE c1
       IN  camera' = [c2 EXCEPT !.handler = "wheel", !.zoomInputs = @ + 1]
  /\ UNCHANGED <<data, edits, returned, fnVars, input, joystick, appVars, loopVars>>

\* onRefLockPointerDown: the second pointer starts a pinch
RefLockPointerDown ==
  /\ pc = "idle"
  /\ camera.refLockListenersAttached
  /\ \E id \in PointerIds : \E dist \in PinchDistances :
       LET pointers == camera.refLockPointers \cup {id}
       IN  camera' = [camera EXCEPT !.refLockPointers = pointers,
                                    !.refLockLastPinchDist =
                                       IF Cardinality(pointers) = 2 THEN dist ELSE @,
                                    !.handler = "other"]
  /\ UNCHANGED <<data, edits, returned, fnVars, input, joystick, appVars, loopVars>>

\* onRefLockPointerMove: two pointers pinch, one pointer orbits
onRefLockPointerMove(c, id, pinchDist) ==
  IF id \notin c.refLockPointers THEN c
  ELSE IF Cardinality(c.refLockPointers) >= 2
       THEN [c EXCEPT !.shuttleRefDistance =
                         IF c.refLockLastPinchDist > 0 /\ pinchDist > 0
                         THEN Max(minDistance, (@ * c.refLockLastPinchDist) \div pinchDist)
                         ELSE @,
                      !.refLockLastPinchDist = pinchDist]
       ELSE c

RefLockPointerMove ==
  /\ pc = "idle"
  /\ camera.refLockListenersAttached
  /\ camera.zoomInputs < MaxZoomInputs
  /\ \E id \in PointerIds : \E pinchDist \in PinchDistances :
       camera' = [onRefLockPointerMove(camera, id, pinchDist)
                    EXCEPT !.handler = "pointermove", !.zoomInputs = @ + 1]
  /\ UNCHANGED <<data, edits, returned, fnVars, input, joystick, appVars, loopVars>>

\* onRefLockPointerUp, also for pointercancel and pointerleave
RefLockPointerUp ==
  /\ pc = "idle"
  /\ camera.refLockListenersAttached
  /\ \E id \in PointerIds :
       camera' = [camera EXCEPT !.refLockPointers = @ \ {id},
                                !.refLockLastPinchDist = 0,
                                !.handler = "other"]
  /\ UNCHANGED <<data, edits, returned, fnVars, input, joystick, appVars, loopVars>>

\* the preset select with the camera part of App.loadSequence (line 448); the new
\* initial state puts the shuttle somewhere else
CameraSelectPreset ==
  /\ presetChange({"leo-circular"})
  /\ \E jump \in Jumps :
       camera' = [shuttleJump(IF camera.shuttleRefFrameLock
                              THEN exitRefLock(camera) ELSE camera, jump)
                    EXCEPT !.handler = "load"]
  /\ UNCHANGED <<data, edits, returned, fnVars, input, joystick>>

CameraNext ==
  \/ CameraFrame
  \/ CameraTargetChange
  \/ CameraRecenter
  \/ CameraRightClick
  \/ CanvasWheel
  \/ RefLockPointerDown
  \/ RefLockPointerMove
  \/ RefLockPointerUp
  \/ CameraSelectPreset

SpecCamera == Init /\ [][CameraNext]_vars

(***************************************************************************)
(* C21.  While the reference-frame lock is held the frame does not call    *)
(* controls.update() and the custom listeners are attached; every exit     *)
(* from the lock restores the four OrbitControls flags to the values they  *)
(* had before the lock and removes the listeners, and a frame that ends    *)
(* without the lock calls controls.update().                               *)
(***************************************************************************)
C21_WhileLocked(c) == ~c.updated /\ c.refLockListenersAttached

C21_Exited(c) == c.controls = c.preLock /\ ~c.refLockListenersAttached

C21_OwnsCameraWhileLocked ==
  [][/\ camera'.shuttleRefFrameLock => C21_WhileLocked(camera')
     /\ (camera.shuttleRefFrameLock /\ ~camera'.shuttleRefFrameLock) => C21_Exited(camera')
     /\ (camera'.handler = "frame" /\ ~camera'.shuttleRefFrameLock) => camera'.updated]_vars

\* the lock was entered, left, and a frame has run since
C21_Witness ==
  /\ camera.shuttleRefDistance # defaultShuttleCameraDistance
  /\ ~camera.shuttleRefFrameLock
  /\ camera.handler = "frame"
  /\ camera.updated

(***************************************************************************)
(* C22.  While the lock is held shuttleRefDistance changes only in the     *)
(* wheel and pinch handlers; the lock is entered at a distance of at most  *)
(* 25 km; and it is left only by a frame that finds shuttleRefDistance at  *)
(* 30 km or more, by a change of the camera target, by a right click or by *)
(* the load of a sequence, however far the shuttle moved during a frame.   *)
(***************************************************************************)
C22_Step ==
  /\ (camera.shuttleRefFrameLock /\ camera'.shuttleRefFrameLock
        /\ camera'.shuttleRefDistance # camera.shuttleRefDistance)
       => camera'.handler \in {"wheel", "pointermove"}
  /\ (~camera.shuttleRefFrameLock /\ camera'.shuttleRefFrameLock)
       => camera'.shuttleRefDistance <= 25000
  /\ (camera.shuttleRefFrameLock /\ ~camera'.shuttleRefFrameLock)
       => \/ camera'.handler = "frame" /\ camera.shuttleRefDistance >= 30000
          \/ camera'.handler \in {"target", "rightclick", "load"}

C29_LockOnlyOnShuttle ==
  (camera.handler = "frame" /\ camera.shuttleRefFrameLock)
    => camera.cameraLockTarget = "shuttle"

(***************************************************************************)
(* The InputManager by itself: the keyboard listeners and consume.  The    *)
(* browser sends keydown when a key goes down and again, as auto-repeat,   *)
(* for as long as it is held.                                              *)
(***************************************************************************)
MaxTrueResults == 2

\* keydown listener: this.keys.set(e.code, true)
InputKeyDown ==
  /\ pc = "idle"
  /\ \E code \in InputCodes :
       /\ keys' = keys \cup {code}
       /\ input' = [input EXCEPT !.held = @ \cup {code},
                                 !.trueSincePress[code] =
                                    IF code \in input.held THEN @ ELSE 0]
  /\ UNCHANGED <<currentSequence, state, issStateVector, docked, dockedFlying, crashed,
                 simTime, accumulator, lastPresetName, timeControls, lastQuat, executor,
                 timeline, crashOverlay, dockingOverlay, exported, loopVars,
                 data, edits, returned, fnVars, camera, joystick>>

\* keyup listener: this.keys.set(e.code, false)
InputKeyUp ==
  /\ pc = "idle"
  /\ \E code \in input.held :
       /\ keys' = keys \ {code}
       /\ input' = [input EXCEPT !.held = @ \ {code}]
  /\ UNCHANGED <<currentSequence, state, issStateVector, docked, dockedFlying, crashed,
                 simTime, accumulator, lastPresetName, timeControls, lastQuat, executor,
                 timeline, crashOverlay, dockingOverlay, exported, loopVars,
                 data, edits, returned, fnVars, camera, joystick>>

\* consume(code)
InputConsume ==
  /\ pc = "idle"
  /\ \E code \in InputCodes :
       /\ input.trueSincePress[code] < MaxTrueResults
       /\ keys' = keys \ {code}
       /\ input' = [input EXCEPT !.lastConsume = [code |-> code, value |-> code \in keys],
                                 !.trueSincePress[code] =
                                    IF code \in keys THEN @ + 1 ELSE @]
  /\ UNCHANGED <<currentSequence, state, issStateVector, docked, dockedFlying, crashed,
                 simTime, accumulator, lastPresetName, timeControls, lastQuat, executor,
                 timeline, crashOverlay, dockingOverlay, exported, loopVars,
                 data, edits, returned, fnVars, camera, joystick>>

InputNext == InputKeyDown \/ InputKeyUp \/ InputConsume

SpecInput == Init /\ [][InputNext]_vars

(***************************************************************************)
(* C23.  consume(code) returns true at most once per physical key press:   *)
(* between two presses of a key (the key going down after having been up)  *)
(* at most one call of consume for it returns true.                        *)
(***************************************************************************)
C23_ConsumedOncePerPress == \A code \in InputCodes : input.trueSincePress[code] <= 1

(***************************************************************************)
(* A VirtualJoystick (the left one of the MobileControls).  A touch is     *)
(* its identifier and its offset from the centre of the canvas in pixels;  *)
(* the knob is kept in thousandths of the base radius.                     *)
(***************************************************************************)
baseRadius == 55
deadzone == 200
JoystickKeys == [up |-> "KeyW", down |-> "KeyS", left |-> "KeyA", right |-> "KeyD"]
MappedKeys == {JoystickKeys.up, JoystickKeys.down, JoystickKeys.left, JoystickKeys.right}
TouchIds == {0, 1}
TouchOffsets == {-80, -12, -9, 0, 9, 12, 80}
Touches == [identifier : TouchIds, dx : TouchOffsets, dy : TouchOffsets]
\* the changedTouches of an event: one touch, or two with different identifiers
ChangedTouches ==
  {<<t>> : t \in Touches}
    \cup {<<t, u>> : t \in {t \in Touches : t.identifier = 0 /\ t.dx = 12},
                     u \in {u \in Touches : u.identifier = 1 /\ u.dy = -80}}
    \cup {<<u, t>> : t \in {t \in Touches : t.identifier = 0 /\ t.dx = 12 /\ t.dy = 0},
                     u \in {u \in Touches : u.identifier = 1 /\ u.dy = -80 /\ u.dx = 0}}

\* setSyntheticKey(code, state) on the set of the synthetic keys that are down
setSyntheticKey(syn, code, st) == IF st THEN syn \cup {code} ELSE syn \ {code}

clearKeys(syn) == syn \ MappedKeys

\* updateKeys
updateKeys(syn, knobX, knobY) ==
  IF knobX * knobX + knobY * knobY < deadzone * deadzone
  THEN clearKeys(syn)
  ELSE setSyntheticKey(
         setSyntheticKey(
           setSyntheticKey(
             setSyntheticKey(syn, JoystickKeys.up, knobY < -deadzone),
             JoystickKeys.down, knobY > deadzone),
           JoystickKeys.left, knobX < -deadzone),
         JoystickKeys.right, knobX > deadzone)

\* updateKnob: the offset clamped to the base radius
knobOf(d, dist) ==
  IF dist > baseRadius THEN Quot(Quot(d * 1000, dist) * baseRadius, baseRadius)
  ELSE Quot(d * 1000, baseRadius)

updateKnob(js, touch) ==
  LET dist == Sqrt(touch.dx * touch.dx + touch.dy * touch.dy)
      kx == knobOf(touch.dx, dist)
      ky == knobOf(touch.dy, dist)
  IN  [j |-> [js.j EXCEPT !.knobX = kx, !.knobY = ky],
       syn |-> updateKeys(js.syn, kx, ky)]

onTouchStart(js, changed) ==
  IF js.j.activeTouch # {} THEN js
  ELSE updateKnob([js EXCEPT !.j.activeTouch = {changed[1].identifier}], changed[1])

onTouchMove(js, changed) ==
  IF \E i \in 1..Len(changed) : changed[i].identifier \in js.j.activeTouch
  THEN updateKnob(js, changed[CHOOSE i \in 1..Len(changed) :
                                changed[i].identifier \in js.j.activeTouch])
  ELSE js

onTouchEndKeepingKeys(js, changed) ==
  IF \E i \in 1..Len(changed) : changed[i].identifier \in js.j.activeTouch
  THEN [j |-> [js.j EXCEPT !.activeTouch = {}, !.knobX = 0, !.knobY = 0],
        syn |-> js.syn]
  ELSE js

onTouchEnd(js, changed) ==
  IF \E i \in 1..Len(changed) : changed[i].identifier \in js.j.activeTouch
  THEN [j |-> [js.j EXCEPT !.activeTouch = {}, !.knobX = 0, !.knobY = 0],
        syn |-> clearKeys(js.syn)]
  ELSE js

Identifiers(changed) == {changed[i].identifier : i \in 1..Len(changed)}

JoystickUnchanged ==
  UNCHANGED <<currentSequence, state, issStateVector, docked, dockedFlying, crashed,
              simTime, accumulator, lastPresetName, timeControls, keys, lastQuat, executor,
              timeline, crashOverlay, dockingOverlay, exported, loopVars,
              data, edits, returned, fnVars, camera>>

\* what a handler made of the joystick and of the synthetic keys
JoystickBecomes(js, touches) ==
  /\ joystick' = [js.j EXCEPT !.touches = touches]
  /\ input' = [input EXCEPT !.syntheticKeys = js.syn]

\* touchstart: fingers that were not on the canvas
JoystickTouchStart ==
  /\ ~joystick.disposed
  /\ \E changed \in ChangedTouches :
       /\ Identifiers(changed) \cap joystick.touches = {}
       /\ JoystickBecomes(onTouchStart([j |-> joystick, syn |-> input.syntheticKeys], changed),
                          joystick.touches \cup Identifiers(changed))
  /\ JoystickUnchanged

\* touchmove: fingers on the canvas
JoystickTouchMove ==
  /\ ~joystick.disposed
  /\ \E changed \in ChangedTouches :
       /\ Identifiers(changed) \subseteq joystick.touches
       /\ JoystickBecomes(onTouchMove([j |-> joystick, syn |-> input.syntheticKeys], changed),
                          joystick.touches)
  /\ JoystickUnchanged

\* touchend and touchcancel: fingers leave the canvas
JoystickTouchEnd ==
  /\ ~joystick.disposed
  /\ \E changed \in ChangedTouches :
       /\ Identifiers(changed) \subseteq joystick.touches
       /\ JoystickBecomes(onTouchEnd([j |-> joystick, syn |-> input.syntheticKeys], changed),
                          joystick.touches \ Identifiers(changed))
  /\ JoystickUnchanged

\* dispose: the listeners are removed, so no later event reaches the handlers
JoystickDispose ==
  /\ ~joystick.disposed
  /\ joystick' = [joystick EXCEPT !.disposed = TRUE]
  /\ input' = [input EXCEPT !.syntheticKeys = clearKeys(@)]
  /\ JoystickUnchanged

JoystickNext ==
  \/ JoystickTouchStart
  \/ JoystickTouchMove
  \/ JoystickTouchEnd
  \/ JoystickDispose

SpecJoystick == Init /\ [][JoystickNext]_vars

(***************************************************************************)
(* C30.  Whenever no touch is active on the joystick (before the first     *)
(* touch, after the active touch ended or was cancelled, after dispose)    *)
(* its four synthetic keys are up, and its opposite keys (up and down,     *)
(* left and right) are never down together.                                *)
(***************************************************************************)
C30_NoActiveTouch == joystick.activeTouch = {} \/ joystick.disposed \/ joystick.touches = {}

C30_KeysFollowTheTouch ==
  /\ C30_NoActiveTouch => input.syntheticKeys \cap {"KeyW", "KeyS", "KeyA", "KeyD"} = {}
  /\ ~({"KeyW", "KeyS"} \subseteq input.syntheticKeys)
  /\ ~({"KeyA", "KeyD"} \subseteq input.syntheticKeys)

\* the active touch has ended after it held a key down, with another finger still on the canvas
C30_Witness ==
  /\ joystick.activeTouch = {}
  /\ joystick.touches # {}
  /\ ~joystick.disposed

(***************************************************************************)
(* Imports of documents whose issInitialState, which validateSequence      *)
(* does not look at, cannot be read by App.loadSequence: the spread of a   *)
(* missing position throws inside loadSequence, and the handler's catch    *)
(* block reports a parse failure.                                          *)
(***************************************************************************)
\* a rendezvous document whose issInitialState has no position
DocBrokenIss ==
  Obj([version |-> Num(1), name |-> Str("BrokenIss"),
       initialState |-> StateDoc(Vec(LeoRadius, 0, 0), Vec(0, 0, -LeoSpeed)),
       issInitialState |-> Obj([velocity |-> Vec(0, 0, -LeoSpeed)]),
       maneuvers |-> Arr(<<>>),
       totalDuration |-> Num(10)])

\* a document on another orbit, so that an import changes the state vector
DocHigher ==
  Obj([version |-> Num(1), name |-> Str("Higher"),
       initialState |-> StateDoc(Vec(LeoRadius + 200 * KM, 0, 0), Vec(0, 0, -LeoSpeed)),
       maneuvers |-> Arr(<<>>),
       totalDuration |-> Num(10)])

AttemptDocs == {DocBrokenIss, DocHigher, DocRendezvous, DocInvalid}

\* [...v] throws for a value that is not iterable
SpreadThrows(v) == v.kind \notin {"array", "string"}

\* loadSequence(seq) throws at line 455 or 456
issSpreadThrows(d) ==
  LET iss == Prop(d, "issInitialState")
  IN  ~Falsy(iss) /\ (SpreadThrows(Prop(iss, "position")) \/ SpreadThrows(Prop(iss, "velocity")))

\* data as ManeuverSequence, for a document whose issInitialState cannot be read
AsUnreadableSequence(d) ==
  [AsManeuverSequence(SetField(d, "issInitialState", Undefined)) EXCEPT !.hasIss = TRUE]

\* App.loadSequence(seq) up to the exception: lines 436-451
LoadSequenceInterrupted(seq) ==
  /\ currentSequence' = seq
  /\ state' = [state EXCEPT !.stateVector = CopyStateVector(seq.initialState)]
  /\ simTime' = 0
  /\ accumulator' = 0
  /\ crashed' = FALSE
  /\ docked' = FALSE
  /\ dockedFlying' = FALSE
  /\ crashOverlay' = CrashOverlayHidden
  /\ dockingOverlay' = [shown |-> FALSE, undockButton |-> FALSE]
  /\ loadedSequence' = seq
  /\ lastCall' = NoCall
  /\ manualUsed' = FALSE
  /\ stepCount' = 0
  /\ UNCHANGED <<issStateVector, executor, timeline>>

\* the file reader's onload with its try and catch
ImportAttempt ==
  /\ pc = "idle"
  /\ \E doc \in AttemptDocs :
       IF validateSequence(doc) # "data"
       THEN UNCHANGED <<currentSequence, state, simTime, accumulator, crashed, docked,
                        dockedFlying, crashOverlay, dockingOverlay, issStateVector,
                        executor, timeline, loadedSequence, lastCall, manualUsed,
                        stepCount>>
       ELSE IF issSpreadThrows(doc)
            THEN LoadSequenceInterrupted(AsUnreadableSequence(doc))
            ELSE LoadSequence(AsManeuverSequence(doc))
  /\ UNCHANGED <<lastPresetName, timeControls, keys, lastQuat, pc, steps,
                 manualThrust, valVars>>
  /\ exported' = NoExport

ImportNext ==
  \/ ImportAttempt
  \/ BeginFrame
  \/ StepInBound
  \/ KeyDown
  \/ KeyUp
  \/ DockingContinue
  \/ Undock

SpecImport == Init /\ [][ImportNext]_vars

(***************************************************************************)
(* C24.  An import is all or nothing: App.currentSequence and the          *)
(* sequence of the ManeuverExecutor are always the same sequence, and a    *)
(* step that replaces App.currentSequence leaves the executor and the      *)
(* timeline with the new sequence, simTime = 0 and the state vector at     *)
(* the new sequence's initialState.                                        *)
(***************************************************************************)
C24_Switched ==
  /\ executor'.sequence = currentSequence'
  /\ timeline' = currentSequence'
  /\ simTime' = 0
  /\ state'.stateVector.position = currentSequence'.initialState.position
  /\ state'.stateVector.velocity = currentSequence'.initialState.velocity

C24_ImportAllOrNothing ==
  [][/\ executor'.sequence = currentSequence'
     /\ currentSequence' # currentSequence => C24_Switched]_vars

(***************************************************************************)
(* Maneuvers of no duration.                                               *)
(***************************************************************************)
\* the maneuvers of the loaded sequence that last no time
ZeroDuration == {i \in 1..Len(loadedSequence.maneuvers) :
                   loadedSequence.maneuvers[i].duration = 0}

\* C25: the maneuver getThrustAtTime treats as active has a duration above
\* zero, in the call the loop made last and in the executor's own record, so
\* deltaV / duration has a divisor other than zero and a maneuver of no
\* duration is never the active one.
C25_ActiveHasDuration ==
  /\ lastCall.called =>
       /\ lastCall.active \notin ZeroDuration
       /\ lastCall.active # 0 => loadedSequence.maneuvers[lastCall.active].duration > 0
  /\ (executor.loaded /\ executor.activeManeuver # 0) =>
       executor.sequence.maneuvers[executor.activeManeuver].duration > 0

\* a call at the start time of a maneuver of no duration, listed first
C25_Witness ==
  /\ lastCall.called
  /\ 1 \in ZeroDuration
  /\ lastCall.simTime = loadedSequence.maneuvers[1].startTime
  /\ lastCall.active # 1

(***************************************************************************)
(* The delta-v a run commands for one maneuver.                            *)
(***************************************************************************)
\* the getThrustAtTime call of step k of a run of seq under scripted thrust only
CallAt(seq, k) ==
  LET before == Trajectory(seq, k)
  IN  getThrustAtTime(ExecutorLoad(NoExecutor, seq), k * PHYSICS_DT,
        [position |-> SubSeq(before, 1, 3), velocity |-> SubSeq(before, 4, 6),
         quaternion |-> IdentityQuat, thrustActive |-> FALSE,
         thrustDirection |-> ZeroVec])

\* the steps before step upto at which maneuver i was active and its
\* acceleration was returned
AppliedSteps(seq, i, upto) ==
  {k \in 0..(upto - 1) :
     CallAt(seq, k).exec.activeManeuver = i /\ CallAt(seq, k).thrustActive}

\* no maneuver listed before ms[i] has a window that meets the window of ms[i]
NotOverlapped(ms, i) ==
  \A j \in 1..(i - 1) :
    \/ ms[j].startTime + ms[j].duration <= ms[i].startTime
    \/ ms[i].startTime + ms[i].duration <= ms[j].startTime

\* acceleration * PHYSICS_DT summed over n steps, by component
CommandedDeltaV(m, n) ==
  [c \in 1..3 |-> IF n = 0 THEN 0 ELSE n * Quot(m.deltaV[c], m.duration) * PHYSICS_DT]

\* C26: a run from the load under scripted thrust that has passed the whole
\* window of a maneuver no earlier-listed maneuver overlaps applied the
\* maneuver's acceleration in n steps with n * PHYSICS_DT = duration, and the
\* commanded delta-v summed over those steps is the maneuver's deltaV.
C26_BurnDeliversDeltaV ==
  (~manualUsed /\ simTime = stepCount * PHYSICS_DT) =>
    \A i \in 1..Len(loadedSequence.maneuvers) :
      LET m == loadedSequence.maneuvers[i] IN
      (/\ NotOverlapped(loadedSequence.maneuvers, i)
       /\ simTime > m.startTime
       /\ simTime >= m.startTime + m.duration) =>
        LET n == Cardinality(AppliedSteps(loadedSequence, i, stepCount)) IN
        /\ n * PHYSICS_DT = m.duration
        /\ CommandedDeltaV(m, n) = m.deltaV

(***************************************************************************)
(* The three flags of the application: crashed, docked, dockedFlying.      *)
(***************************************************************************)
\* how many of the three flags are true
FlagsSet == Cardinality({f \in {"crashed", "docked", "dockedFlying"} :
                           \/ f = "crashed" /\ crashed
                           \/ f = "docked" /\ docked
                           \/ f = "dockedFlying" /\ dockedFlying})

\* documents that dock, crash, or dock and then crash
FlagDocs == {DocReentry, DocDockedReentry, DocRendezvous}

\* the file reader's onload for one of these documents
ImportFlagDoc ==
  /\ pc = "idle"
  /\ \E doc \in FlagDocs :
       /\ validateSequence(doc) = "data"
       /\ LoadSequence(AsManeuverSequence(doc))
  /\ exported' = NoExport
  /\ UNCHANGED <<lastPresetName, timeControls, keys, lastQuat, pc, steps, manualThrust,
                 valVars>>

FlagsNext ==
  \/ BeginFrame
  \/ StepInBound
  \/ SelectPreset
  \/ ImportFlagDoc
  \/ CrashOverlayClick
  \/ CountdownTick
  \/ DockingContinue
  \/ Undock

SpecFlags == Init /\ [][FlagsNext]_vars

\* C27: at most one of crashed, docked and dockedFlying is true, in every
\* state the frames, preset selections, imports, restarts, continue clicks and
\* undock clicks reach.
C27_OneFlagAtMost == FlagsSet <= 1

\* the spacecraft crashed in a step it began flying docked to the ISS
C27_Witness ==
  /\ crashed
  /\ ~dockedFlying
  /\ issStateVector.present
  /\ stepCount = 2
  /\ lastCall.called
  /\ lastCall.value = issStateVector.position \o issStateVector.velocity
  /\ ~dockingOverlay.undockButton

(***************************************************************************)
(* Frames while the simulation is paused, crashed or docked.               *)
(***************************************************************************)
\* a keydown of the space bar, which TimeControls.update consumes
SpaceKeyDown ==
  /\ pc = "idle"
  /\ keys' = keys \cup {"Space"}
  /\ UNCHANGED <<currentSequence, state, issStateVector, docked, dockedFlying, crashed,
                 simTime, accumulator, lastPresetName, timeControls, lastQuat, executor,
                 timeline, crashOverlay, dockingOverlay, loopVars, valVars>>
  /\ exported' = NoExport

PauseNext ==
  \/ BeginFrame
  \/ StepInBound
  \/ SpaceKeyDown
  \/ KeyDown
  \/ KeyUp
  \/ ImportFlagDoc
  \/ DockingContinue
  \/ Undock

SpecPause == Init /\ [][PauseNext]_vars

\* the simulation is held in the frame that ends in this state
Held == timeControls'.paused \/ crashed \/ (docked /\ dockingOverlay.shown)

C28_Step ==
  /\ (timeControls.paused \/ crashed \/ docked) => pc = "idle"
  /\ docked => dockingOverlay.shown
  /\ (BeginFrame /\ Held) =>
       /\ state'.stateVector = state.stateVector
       /\ issStateVector' = issStateVector
       /\ simTime' = simTime
       /\ accumulator' = accumulator
       /\ pc' = "idle"
  /\ BeginFrame =>
       accumulator' - accumulator <= MAX_FRAME_DT * WARP_LEVELS[timeControls'.warpIndex]

\* C28: a frame while the simulation is paused, crashed, or docked with the
\* docking overlay shown starts no physics step and leaves the spacecraft state
\* vector, the ISS state vector, simTime and the accumulator as they were; no
\* loop iteration is pending in such a state, and a frame adds at most one
\* clamped frame time to the accumulator, whatever came before it.
C28_NoStepWhileHeld == [][C28_Step]_vars

\* paused by the space bar with part of a step in the accumulator, after a run
C28_Witness ==
  /\ timeControls.paused
  /\ pc = "idle"
  /\ accumulator > 0
  /\ stepCount > 0
  /\ ~crashed
  /\ ~docked

====
